---- MODULE Spec2Model ----
(***************************************************************************)
(* Junction cycle engine and Channel state machine of                      *)
(* src/extensions/io/src/module.c.                                         *)
(*                                                                         *)
(* One Junction "J" and one pipe pair: the input Channel "r" (Port "pr")   *)
(* and the output Channel "w" (Port "pw"), joined by a kernel pipe.  Other *)
(* initial states hold the two Channels as the siblings of one Port, or a  *)
(* pair whose creating call failed.                                        *)
(* Caller operations run atomically (they hold the GIL).  begin_cycle      *)
(* releases the GIL for its I/O phase, so the caller operations of other   *)
(* threads interleave with the worker that waits in the collect.           *)
(***************************************************************************)
EXTENDS Integers, Sequences, FiniteSets, TLC

\* ------------------------------------------------------------- bounds
MaxBytes == 2      \* bytes the writer's resources offer over a whole run
MaxSize == 2       \* largest resource buffer handed to Channel.acquire
PipeCap == 1       \* capacity of the kernel pipe buffer

\* ------------------------------------------------------------- names
J == "J"
Chans == {"r", "w"}
K == "K"
Junctions == {J, K}
Nodes == Chans \cup Junctions
NULL == "NULL"
NoResource == [id |-> 0, data |-> <<>>]
Ports == {"pr", "pw", "pj", "pn"}
Backends == {"kqueue", "epoll"}
Sizes == 1..MaxSize

Peer(t) == IF t = "r" THEN "w" ELSE "r"

Min(a, b) == IF a < b THEN a ELSE b

IsPrefix(s, t) == Len(s) <= Len(t) /\ SubSeq(t, 1, Len(s)) = s

VARIABLES
    alloc,       \* allocator that made the Channels: iopair, io, failed
    backend,     \* readiness mechanism the build selected
    junction,    \* Channel -> Junction back-reference
    prev, next,  \* ring pointers
    lltransfer,  \* next_transfer pointers (J's is the list head)
    resource,    \* borrowed resource [id, data]; id 0: none
    window,      \* <<start, stop>>
    state,       \* control flags and I/X qualifications
    delta,       \* pending qualifications and control flags
    events,      \* events noted this cycle
    link,        \* user link slot is occupied
    port,        \* Port records
    ntransits,   \* ring population
    will_wait,   \* J->choice.junction.will_wait
    haswrites,   \* J->choice.junction.haswrites (epoll)
    countdown,   \* further collects left to the cycle (_junction_flow)
    polled,      \* history: the object each collect of the cycle polled
    pipe,        \* bytes in the kernel pipe
    filt,        \* readiness filter installed for the Channel
    kev,         \* undelivered edge-triggered readiness for the Channel
    wake,        \* undelivered wakeup token (EVFILT_USER / eventfd)
    pc,          \* phase of the cycle of J
    inflow,      \* threads inside the I/O phase of _junction_flow
    jxi,         \* the transfer iterator: NULL or [t, J]
    stale,       \* history: end_cycle ran since the iterator was made
    stream,      \* history: bytes handed to the writer so far
    moved,       \* history: bytes moved by this cycle's transfer
    replaced,    \* history: acquire replaced the resource the transfer ran on
    pstop,       \* history: window stop when the transfer was dispatched
    log,         \* history: concatenated regions read from transfer()
    forced       \* history: Junction.force() ran since the worker began to wait

mvars == <<junction, prev, next, lltransfer, resource, window, state, delta,
           events, link, port, ntransits, will_wait, haswrites, pipe, filt,
           kev, wake, moved, replaced, pstop, countdown, polled>>
vars == <<alloc, backend, junction, prev, next, lltransfer, resource, window, state,
          delta, events, link, port, ntransits, will_wait, haswrites, pipe,
          filt, kev, wake, pc, inflow, jxi, stale, stream, moved, replaced,
          pstop, log, forced, countdown, polled>>

\* The Port of a Channel: allocio gives both siblings one Port.
PortOf(t) ==
    IF t = "r" THEN "pr"
    ELSE IF t = "w" THEN (IF alloc = "io" THEN "pr" ELSE "pw")
    ELSE "pj"

\* The machine: the fields the engine's functions read and write.
Cur ==
    [junction |-> junction, prev |-> prev, next |-> next,
     lltransfer |-> lltransfer, resource |-> resource, window |-> window,
     state |-> state, delta |-> delta, events |-> events, link |-> link,
     port |-> port, ntransits |-> ntransits, will_wait |-> will_wait,
     haswrites |-> haswrites, pipe |-> pipe, filt |-> filt, kev |-> kev,
     wake |-> wake, moved |-> moved, replaced |-> replaced, pstop |-> pstop,
     countdown |-> countdown, polled |-> polled]

Install(m) ==
    /\ junction' = m.junction /\ prev' = m.prev /\ next' = m.next
    /\ lltransfer' = m.lltransfer /\ resource' = m.resource
    /\ window' = m.window /\ state' = m.state /\ delta' = m.delta
    /\ events' = m.events /\ link' = m.link /\ port' = m.port
    /\ ntransits' = m.ntransits /\ will_wait' = m.will_wait
    /\ haswrites' = m.haswrites /\ pipe' = m.pipe /\ filt' = m.filt
    /\ kev' = m.kev /\ wake' = m.wake /\ moved' = m.moved
    /\ replaced' = m.replaced /\ pstop' = m.pstop
    /\ countdown' = m.countdown /\ polled' = m.polled

\* ------------------------------------------------- qualification words
IQ(q) == IF q = "transfer" THEN "itransfer" ELSE "iterminate"
XQ(q) == IF q = "transfer" THEN "xtransfer" ELSE "xterminate"
DQ(q) == IF q = "transfer" THEN "dtransfer" ELSE "dterminate"

Channel_IQualified(m, t, q) == IQ(q) \in m.state[t]
Channel_XQualified(m, t, q) == XQ(q) \in m.state[t]
Channel_DQualified(m, t, q) == DQ(q) \in m.delta[t]
Channel_GetControl(m, t, ctl) == ctl \in m.state[t]

Channel_IQualify(m, t, q) == [m EXCEPT !.state[t] = @ \cup {IQ(q)}]
Channel_XQualify(m, t, q) == [m EXCEPT !.state[t] = @ \cup {XQ(q)}]
Channel_INQualify(m, t, q) == [m EXCEPT !.state[t] = @ \ {IQ(q)}]
Channel_XNQualify(m, t, q) == [m EXCEPT !.state[t] = @ \ {XQ(q)}]
Channel_DQualify(m, t, q) == [m EXCEPT !.delta[t] = @ \cup {DQ(q)}]
Channel_DControl(m, t, ctl) == [m EXCEPT !.delta[t] = @ \cup {ctl}]
Channel_NulControl(m, t, ctl) == [m EXCEPT !.state[t] = @ \ {ctl}]

\* The delta word is laid out over the internal qualifications and the
\* control flags of the state word; merging ORs it in.
MergedDelta(d) ==
    (d \cap {"connect", "force"})
      \cup (IF "dtransfer" \in d THEN {"itransfer"} ELSE {})
      \cup (IF "dterminate" \in d THEN {"iterminate"} ELSE {})

Channel_StateMerge(m, t) == [m EXCEPT !.state[t] = @ \cup MergedDelta(m.delta[t])]
Channel_ClearDelta(m, t) == [m EXCEPT !.delta[t] = {}]

Channel_Attached(m, t) == m.prev[t] # NULL
Channel_Terminated(m, t) ==
    Channel_IQualified(m, t, "terminate") \/ Channel_XQualified(m, t, "terminate")
Channel_Terminating(m, t) ==
    Channel_Terminated(m, t) \/ Channel_DQualified(m, t, "terminate")
Channel_ShouldTerminate(m, t) ==
    Channel_IQualified(m, t, "terminate") \/ Channel_XQualified(m, t, "terminate")
Channel_ShouldTransfer(m, t) ==
    Channel_IQualified(m, t, "transfer") /\ Channel_XQualified(m, t, "transfer")
Channel_EventState(m, t) ==
    Channel_ShouldTerminate(m, t) \/ Channel_ShouldTransfer(m, t)
Channel_ShouldXConnect(m, t) == Channel_GetControl(m, t, "connect")
Channel_InCycle(m, t) == m.lltransfer[t] # NULL
Channel_HasResource(m, t) == m.resource[t].id # 0
Channel_HasEvent(m, t, ev) == ev \in m.events[t]
Channel_PortLatched(m, t) == m.port[PortOf(t)].latches # {}
Channel_PortError(m, t) == m.port[PortOf(t)].error # 0
Channel_Polarity(t) == IF t = "w" THEN "out" ELSE "in"
Junction_ShouldWait(m) == m.lltransfer[J] = J
Junction_Cycling(m) == m.lltransfer[J] # NULL

Channel_ClearWindow(m, t) == [m EXCEPT !.window[t] = <<0, 0>>]
Channel_CollapseWindow(m, t) == [m EXCEPT !.window[t] = <<@[2], @[2]>>]
Channel_ExpandWindow(m, t, n) == [m EXCEPT !.window[t] = <<@[1], @[2] + n>>]

\* ------------------------------------------------------------- kernel
PortOpen(m, p) == m.port[p].point = "open"

\* Level state a filter of t reports on.
KReady(m, t) ==
    IF t = "r" THEN m.pipe # <<>> \/ ~PortOpen(m, PortOf("w"))
    ELSE Len(m.pipe) < PipeCap \/ ~PortOpen(m, PortOf("r"))

\* The peer's end went away.
KHangup(m, t) == ~PortOpen(m, PortOf(Peer(t)))

\* An edge on t's descriptor: an installed filter of t gets an event.
KEdge(m, t) == IF m.filt[t] THEN [m EXCEPT !.kev[t] = TRUE] ELSE m

\* close(2) of the descriptor of Port p.
KClose(m, p) ==
    IF p = "pj"
    THEN [m EXCEPT !.filt = [c \in Chans |-> FALSE],
                   !.kev = [c \in Chans |-> FALSE],
                   !.wake = FALSE]
    ELSE LET ts == {c \in Chans : PortOf(c) = p}
             m1 == [m EXCEPT !.filt = [c \in Chans |-> IF c \in ts THEN FALSE ELSE @[c]],
                             !.kev = [c \in Chans |-> IF c \in ts THEN FALSE ELSE @[c]],
                             !.pipe = IF "r" \in ts THEN <<>> ELSE @]
         IN IF ts = {"r"} THEN KEdge(m1, "w")
            ELSE IF ts = {"w"} THEN KEdge(m1, "r")
            ELSE m1

\* ------------------------------------------------------------- ports
(* unlatch(port, polarity): clear that polarity's latch (0: both); the     *)
(* descriptor is closed when the last latch goes.                          *)
port_unlatch(m, p, polarity) ==
    LET old == m.port[p].latches
        new == IF polarity = "both" THEN {} ELSE old \ {polarity}
    IN IF old = {} THEN m
       ELSE IF new = {}
            THEN KClose([m EXCEPT !.port[p].latches = {},
                                  !.port[p].point = "invalid"], p)
            ELSE [m EXCEPT !.port[p].latches = new]

\* Port(id): a Port the caller constructs itself ("pn"); it has no latch.
port_new(kid) == [latches |-> {}, error |-> -1, point |-> kid, cause |-> "none"]

\* Port.leak(): the latches are dropped, the descriptor is left alone.
port_leak(m, p) ==
    [m EXCEPT !.port[p].latches = {}, !.port[p].cause = "leak"]

\* Port.shatter() that drops the latches the way leak() does.
port_shatter_leaking(m, p) ==
    [m EXCEPT !.port[p].latches = {}, !.port[p].cause = "shatter"]

\* Port.shatter(): both polarities are unlatched.
port_shatter(m, p) ==
    [port_unlatch(m, p, "both") EXCEPT !.port[p].cause = "shatter"]

\* ---------------------------------------------------- ring and lists
TRANSIT_DETACH_SEGMENT(m, first, last) ==
    LET f_prev == m.prev[first]
        l_next == m.next[last]
    IN [m EXCEPT !.next[f_prev] = l_next, !.prev[l_next] = f_prev]

\* An attach that leaves the old tail's next link as it was.
TRANSIT_ATTACH_SEGMENT_HALF(m, target, first, last) ==
    LET T_prev == m.prev[target]
        m1 == [m EXCEPT !.prev[first] = T_prev]
        m2 == [m1 EXCEPT !.next[last] = target]
    IN [m2 EXCEPT !.prev[target] = last]

TRANSIT_ATTACH_SEGMENT_BEFORE(m, target, first, last) ==
    LET T_prev == m.prev[target]
        m1 == [m EXCEPT !.prev[first] = T_prev]
        m2 == [m1 EXCEPT !.next[last] = target]
        m3 == [m2 EXCEPT !.prev[target] = last]
    IN [m3 EXCEPT !.next[T_prev] = first]

TRANSIT_RELOCATE_SEGMENT_BEFORE(m, target, first, last) ==
    TRANSIT_ATTACH_SEGMENT_BEFORE(TRANSIT_DETACH_SEGMENT(m, first, last),
                                  target, first, last)

\* A detach that leaves the Channel's own links as they were.
TRANSIT_DETACH_LINKED(m, t) == TRANSIT_DETACH_SEGMENT(m, t, t)

TRANSIT_DETACH(m, t) ==
    [TRANSIT_DETACH_SEGMENT(m, t, t) EXCEPT !.prev[t] = NULL, !.next[t] = NULL]

\* An add that links the Channel and does not move the head to it.
Junction_AddTransfer_unheaded(m, t) ==
    IF m.lltransfer[t] = NULL
    THEN [m EXCEPT !.lltransfer[t] = m.lltransfer[J]]
    ELSE m

\* An add that does not look whether the Channel is on the list.
Junction_AddTransfer_again(m, t) ==
    [m EXCEPT !.lltransfer[t] = m.lltransfer[J], !.lltransfer[J] = t]

Junction_AddTransfer(m, t) ==
    IF m.lltransfer[t] = NULL
    THEN [m EXCEPT !.lltransfer[t] = m.lltransfer[J], !.lltransfer[J] = t]
    ELSE m

\* A fall that reports the wakeup and does not post it.
junction_fall_unposted(m, force) ==
    IF ~force /\ m.will_wait = 0
    THEN [m |-> m, out |-> 0]
    ELSE [m |-> m, out |-> 1]

\* Wake a waiting collect; the token stays until a collect consumes it.
junction_fall(m, force) ==
    IF ~force /\ m.will_wait = 0
    THEN [m |-> m, out |-> 0]
    ELSE [m |-> [m EXCEPT !.wake = PortOpen(m, "pj")], out |-> 1]

\* The fall is that of the Channel's Junction; K runs no cycle and never
\* waits, so its fall posts nothing.
Channel_EnqueueDelta(m, t) ==
    IF m.delta[t] # {} /\ t # m.junction[t]
    THEN LET m1 == TRANSIT_RELOCATE_SEGMENT_BEFORE(m, m.junction[t], t, t)
         IN IF m.junction[t] = J THEN junction_fall(m1, FALSE).m ELSE m1
    ELSE m

Channel_ReleaseResource(m, t) ==
    IF Channel_HasResource(m, t)
    THEN Channel_ClearWindow([m EXCEPT !.resource[t] = NoResource], t)
    ELSE m

Channel_ReleaseLink(m, t) == [m EXCEPT !.link[t] = FALSE]

\* ------------------------------------------------ Channel operations
transit_can_acquire(m, t) == ~Channel_IQualified(m, t, "transfer")

\* An object that exports no buffer of the kind the Channel asks for.
Unbuffered == [id |-> 3, data |-> <<>>]

\* PyObject_GetBuffer succeeds on the resource.
PyObject_GetBuffer(res) == res # Unbuffered

\* transit_acquire that takes the buffer before it lets go of the held
\* resource.
transit_borrow_checked(m, t, res) ==
    IF ~transit_can_acquire(m, t)
    THEN [m |-> m, val |-> "ResourceError"]
    ELSE IF ~PyObject_GetBuffer(res)
    THEN [m |-> m, val |-> "BufferError"]
    ELSE LET m1 == Channel_ReleaseResource(m, t)
             m2 == [m1 EXCEPT !.resource[t] = res]
             m3 == Channel_ClearWindow(m2, t)
         IN [m |-> IF m3.junction[t] # NULL
                   THEN Channel_EnqueueDelta(
                            Channel_DQualify(m3, t, "transfer"), t)
                   ELSE Channel_IQualify(m3, t, "transfer"),
             val |-> "self"]

\* transit_acquire past its test for termination.
transit_borrow(m, t, res) ==
    IF ~transit_can_acquire(m, t)
    THEN [m |-> m, val |-> "ResourceError"]
    ELSE LET m1 == Channel_ReleaseResource(m, t)
             m2 == [m1 EXCEPT !.resource[t] = res]
             m3 == Channel_ClearWindow(m2, t)
         IN IF ~PyObject_GetBuffer(res)
            THEN [m |-> [m2 EXCEPT !.resource[t] = NoResource],
                  val |-> "BufferError"]
            ELSE [m |-> IF m3.junction[t] # NULL
                        THEN Channel_EnqueueDelta(
                                 Channel_DQualify(m3, t, "transfer"), t)
                        ELSE Channel_IQualify(m3, t, "transfer"),
                  val |-> "self"]

\* Channel.acquire() that does not look at the termination.
transit_acquire_terminating(m, t, res) == transit_borrow(m, t, res)

transit_acquire(m, t, res) ==
    IF Channel_Terminating(m, t)
    THEN [m |-> m, val |-> "None"]
    ELSE transit_borrow(m, t, res)

transit_force(m, t) ==
    LET m1 == Channel_DControl(m, t, "force")
    IN IF Channel_Attached(m1, t) /\ Channel_IQualified(m1, t, "transfer")
       THEN Channel_EnqueueDelta(m1, t)
       ELSE m1

\* Channel.terminate() that keeps the resource of a detached Channel.
transit_terminate_borrowing(m, t) ==
    IF ~Channel_Attached(m, t)
    THEN IF ~Channel_Terminated(m, t)
         THEN port_unlatch(
                  Channel_ReleaseLink(Channel_IQualify(m, t, "terminate"), t),
                  PortOf(t), Channel_Polarity(t))
         ELSE m
    ELSE IF ~Channel_Terminating(m, t)
    THEN Channel_EnqueueDelta(Channel_DQualify(m, t, "terminate"), t)
    ELSE m

\* Channel.terminate() that unlatches the whole Port.
transit_terminate_port(m, t) ==
    IF ~Channel_Attached(m, t)
    THEN IF ~Channel_Terminated(m, t)
         THEN port_unlatch(
                  Channel_ReleaseLink(
                      Channel_ReleaseResource(
                          Channel_IQualify(m, t, "terminate"), t), t),
                  PortOf(t), "both")
         ELSE m
    ELSE IF ~Channel_Terminating(m, t)
    THEN Channel_EnqueueDelta(Channel_DQualify(m, t, "terminate"), t)
    ELSE m

\* Channel.terminate(); for the Junction itself the enqueue is a fall.
transit_terminate(m, t) ==
    IF ~Channel_Attached(m, t)
    THEN IF ~Channel_Terminated(m, t)
         THEN port_unlatch(
                  Channel_ReleaseLink(
                      Channel_ReleaseResource(
                          Channel_IQualify(m, t, "terminate"), t), t),
                  PortOf(t), Channel_Polarity(t))
         ELSE m
    ELSE IF ~Channel_Terminating(m, t)
    THEN LET m1 == Channel_DQualify(m, t, "terminate")
         IN IF t = J THEN junction_fall(m1, FALSE).m
            ELSE Channel_EnqueueDelta(m1, t)
    ELSE m

\* Python's None, as a value no region of octets equals.
None == <<-1>>

\* Channel.transfer() that hands out the resource and not its window.
transit_transfer_whole(m, t) ==
    IF ~Channel_HasResource(m, t) \/ ~Channel_HasEvent(m, t, "transfer")
    THEN None
    ELSE m.resource[t].data

\* Channel.transfer(): the region of the resource inside the window.
transit_transfer(m, t) ==
    IF ~Channel_HasResource(m, t) \/ ~Channel_HasEvent(m, t, "transfer")
    THEN None
    ELSE SubSeq(m.resource[t].data, m.window[t][1] + 1, m.window[t][2])

transit_sizeof_transfer(m, t) ==
    IF ~Channel_HasResource(m, t) \/ ~Channel_HasEvent(m, t, "transfer")
    THEN 0
    ELSE m.window[t][2] - m.window[t][1]

\* ----------------------------------------------- Junction operations
\* TRANSIT_ATTACH: before the Channel's Junction, at the tail of its ring.
TRANSIT_ATTACH(m, t) == TRANSIT_ATTACH_SEGMENT_BEFORE(m, m.junction[t], t, t)

\* Junction.acquire() that takes a Channel whoever holds it.
junction_acquire_owned(m, j, t) ==
    LET m1 == Channel_DControl(m, t, "connect")
        m2 == [m1 EXCEPT !.junction[t] = j]
        m3 == TRANSIT_ATTACH(m2, t)
    IN [m |-> [m3 EXCEPT !.ntransits[j] = @ + 1], val |-> "self"]

\* Junction.acquire() of Junction j.
junction_acquire_by(m, j, t) ==
    IF Channel_Terminating(m, j)
    THEN [m |-> m, val |-> "TerminatedError"]
    ELSE IF ~Channel_Attached(m, t)
    THEN IF Channel_Terminated(m, t)
         THEN [m |-> m, val |-> "TerminatedError"]
         ELSE LET m1 == Channel_DControl(m, t, "connect")
                  m2 == [m1 EXCEPT !.junction[t] = j]
                  m3 == TRANSIT_ATTACH(m2, t)
              IN [m |-> [m3 EXCEPT !.ntransits[j] = @ + 1], val |-> "self"]
    ELSE IF m.junction[t] # j
    THEN [m |-> m, val |-> "ResourceError"]
    ELSE [m |-> m, val |-> "self"]

junction_acquire(m, t) == junction_acquire_by(m, J, t)

junction_force(m) ==
    IF Channel_Terminating(m, J)
    THEN [m |-> m, val |-> "None"]
    ELSE LET f == junction_fall(m, TRUE)
         IN [m |-> f.m, val |-> IF f.out = 0 THEN "False" ELSE "True"]

junction_start_cycle(m) == [m EXCEPT !.lltransfer[J] = J]
junction_finish_cycle(m) == [m EXCEPT !.lltransfer[J] = NULL]


\* ------------------------------------------------------ readiness
\* A filter that reports the changes after its install only, not the
\* readiness there is when it is installed.
kfilter_attach_late(m, t) ==
    IF PortOpen(m, "pj")
    THEN [m EXCEPT !.filt[t] = TRUE]
    ELSE m

kfilter_attach(m, t) ==
    IF PortOpen(m, "pj")
    THEN [m EXCEPT !.filt[t] = TRUE, !.kev[t] = KReady(m, t)]
    ELSE m

kfilter_cancel(m, t) == [m EXCEPT !.filt[t] = FALSE, !.kev[t] = FALSE]

\* port_kqueue / port_epoll_create: a fresh readiness object.
junction_init(m) ==
    [m EXCEPT !.port["pj"].point = "open", !.port["pj"].latches = {"in"}]

RECURSIVE RingWalk(_, _)
RingWalk(m, t) == IF t = J THEN <<>> ELSE <<t>> \o RingWalk(m, m.next[t])

RECURSIVE DControlAll(_, _, _)
DControlAll(m, ts, flag) ==
    IF ts = <<>> THEN m
    ELSE DControlAll([m EXCEPT !.delta[Head(ts)] = @ \cup {flag}], Tail(ts), flag)

junction_reload(m) == DControlAll(m, RingWalk(m, m.next[J]), "connect")

\* A termination of the Junction that leaves its members alone.
_junction_terminate_alone(m) ==
    port_unlatch(Channel_IQualify(m, J, "terminate"), "pj", "both")

_junction_terminate(m) ==
    LET m1 == Channel_IQualify(m, J, "terminate")
        m2 == DControlAll(m1, RingWalk(m1, m1.next[J]), "dterminate")
    IN port_unlatch(m2, "pj", "both")

RECURSIVE transfer_delta_loop(_, _)
transfer_delta_loop(m, t) ==
    IF m.delta[t] = {} THEN m
    ELSE LET m1 == Channel_ClearDelta(Channel_StateMerge(m, t), t)
         IN transfer_delta_loop(Junction_AddTransfer(m1, t), m1.prev[t])

junction_transfer_delta(m) == transfer_delta_loop(m, m.prev[J])

\* An apply that connects whatever the Port's error and latches are.
RECURSIVE apply_delta_loop_connect(_, _, _)
apply_delta_loop_connect(m, prv, t) ==
    IF t = J THEN m
    ELSE LET m1 == IF Channel_ShouldXConnect(m, t)
                   THEN Channel_NulControl(
                            IF ~Channel_GetControl(m, t, "requeue")
                            THEN kfilter_attach(m, t)
                            ELSE m,
                            t, "connect")
                   ELSE m
             m2 == IF Channel_GetControl(m1, t, "force")
                   THEN Channel_XQualify(Channel_NulControl(m1, t, "force"),
                                         t, "transfer")
                   ELSE m1
         IN IF Channel_EventState(m2, t)
            THEN apply_delta_loop_connect(m2, t, m2.lltransfer[t])
            ELSE LET m3 == [m2 EXCEPT !.lltransfer[prv] = m2.lltransfer[t]]
                     m4 == [m3 EXCEPT !.lltransfer[t] = NULL]
                 IN apply_delta_loop_connect(m4, prv, m4.lltransfer[prv])

\* An apply that leaves the force flag on the Channel.
RECURSIVE apply_delta_loop_reforced(_, _, _)
apply_delta_loop_reforced(m, prv, t) ==
    IF t = J THEN m
    ELSE LET m1 == IF Channel_ShouldXConnect(m, t)
                   THEN Channel_NulControl(
                            IF Channel_PortError(m, t) \/ ~Channel_PortLatched(m, t)
                            THEN Channel_XQualify(m, t, "terminate")
                            ELSE IF ~Channel_GetControl(m, t, "requeue")
                                 THEN kfilter_attach(m, t)
                                 ELSE m,
                            t, "connect")
                   ELSE m
             m2 == IF Channel_GetControl(m1, t, "force")
                   THEN Channel_XQualify(m1, t, "transfer")
                   ELSE m1
         IN IF Channel_EventState(m2, t)
            THEN apply_delta_loop_reforced(m2, t, m2.lltransfer[t])
            ELSE LET m3 == [m2 EXCEPT !.lltransfer[prv] = m2.lltransfer[t]]
                     m4 == [m3 EXCEPT !.lltransfer[t] = NULL]
                 IN apply_delta_loop_reforced(m4, prv, m4.lltransfer[prv])

RECURSIVE apply_delta_loop(_, _, _)
apply_delta_loop(m, prv, t) ==
    IF t = J THEN m
    ELSE LET m1 == IF Channel_ShouldXConnect(m, t)
                   THEN Channel_NulControl(
                            IF Channel_PortError(m, t) \/ ~Channel_PortLatched(m, t)
                            THEN Channel_XQualify(m, t, "terminate")
                            ELSE IF ~Channel_GetControl(m, t, "requeue")
                                 THEN kfilter_attach(m, t)
                                 ELSE m,
                            t, "connect")
                   ELSE m
             m2 == IF Channel_GetControl(m1, t, "force")
                   THEN Channel_XQualify(Channel_NulControl(m1, t, "force"),
                                         t, "transfer")
                   ELSE m1
         IN IF Channel_EventState(m2, t)
            THEN apply_delta_loop(m2, t, m2.lltransfer[t])
            ELSE LET m3 == [m2 EXCEPT !.lltransfer[prv] = m2.lltransfer[t]]
                     m4 == [m3 EXCEPT !.lltransfer[t] = NULL]
                 IN apply_delta_loop(m4, prv, m4.lltransfer[prv])

junction_apply_delta(m) == apply_delta_loop(m, J, m.lltransfer[J])

\* kqueue: EVFILT_WRITE with EV_EOF terminates, anything else is readiness.
kqueue_transform(m, t) ==
    LET m0 == [m EXCEPT !.kev[t] = FALSE]
    IN IF t = "w" /\ KHangup(m, t)
       THEN Junction_AddTransfer(
                [Channel_XQualify(m0, t, "terminate")
                    EXCEPT !.port[PortOf(t)].cause = "eof"], t)
       ELSE LET m1 == Channel_XQualify(m0, t, "transfer")
            IN IF Channel_IQualified(m1, t, "transfer")
               THEN Junction_AddTransfer(m1, t) ELSE m1

\* epoll: EPOLLIN/EPOLLOUT is readiness, EPOLLRDHUP/EPOLLERR/EPOLLHUP terminates.
epoll_transform(m, t) ==
    LET m0 == [m EXCEPT !.kev[t] = FALSE]
        inout == IF t = "r" THEN m.pipe # <<>>
                 ELSE Len(m.pipe) < PipeCap \/ KHangup(m, t)
        m1 == IF inout
              THEN LET q == Channel_XQualify(m0, t, "transfer")
                   IN IF Channel_IQualified(q, t, "transfer")
                      THEN Junction_AddTransfer(q, t) ELSE q
              ELSE m0
    IN IF KHangup(m, t)
       THEN Junction_AddTransfer(Channel_XQualify(m1, t, "terminate"), t)
       ELSE m1

RECURSIVE TransformAll(_, _, _)
TransformAll(m, ts, kq) ==
    IF ts = <<>> THEN m
    ELSE TransformAll(IF ~m.kev[Head(ts)] THEN m
                      ELSE IF kq THEN kqueue_transform(m, Head(ts))
                      ELSE epoll_transform(m, Head(ts)),
                      Tail(ts), kq)

\* One epoll collect and its transform: haswrites picks the polled object.
epoll_round(m) ==
    IF m.haswrites = 1
    THEN [TransformAll(m, <<"w">>, FALSE) EXCEPT !.haswrites = 0]
    ELSE LET m1 == [m EXCEPT !.haswrites = IF m.kev["w"] THEN 1 ELSE 0,
                             !.wake = FALSE]
         IN TransformAll(m1, <<"r">>, FALSE)

RECURSIVE epoll_rounds(_, _)
epoll_rounds(m, left) ==
    IF left = 0 THEN m ELSE epoll_rounds(epoll_round(m), left - 1)

\* Something the first (waiting) collect of the cycle returns for.
CollectReady(m, be) ==
    IF be = "epoll" /\ m.haswrites = 1 THEN m.kev["w"]
    ELSE m.wake \/ \E t \in Chans : m.kev[t]

\* collect + transform of _junction_flow, the continuation rounds included.
junction_kevent_rounds(m, be, order) ==
    LET m1 == IF be = "kqueue"
              THEN TransformAll([m EXCEPT !.wake = FALSE], order, TRUE)
              ELSE epoll_rounds(epoll_round(m), 3)
    IN [m1 EXCEPT !.will_wait = 0]


\* ------------------------------------------------- transfer functions
(* Octets over the pipe: read(2)/write(2) until the request is met, the   *)
(* kernel would block, or the stream ended.  Result: bytes moved, status. *)
port_input_octets(m, t, request) ==
    LET n == Min(request, Len(m.pipe))
        got == SubSeq(m.pipe, 1, n)
        pos == m.window[t][2]
        m1 == [m EXCEPT !.pipe = SubSeq(@, n + 1, Len(@)),
                        !.resource[t].data =
                            [i \in DOMAIN @ |->
                                IF i > pos /\ i <= pos + n THEN got[i - pos] ELSE @[i]]]
        m2 == IF n > 0 THEN KEdge(m1, Peer(t)) ELSE m1
    IN IF ~PortOpen(m, PortOf(t))
       THEN [m |-> m, xfer |-> <<>>, stat |-> "io_terminate"]
       ELSE [m |-> m2, xfer |-> got,
             stat |-> IF n = request THEN "io_flow"
                      ELSE IF KHangup(m, t) THEN "io_terminate"
                      ELSE "io_stop"]

port_output_octets(m, t, request) ==
    LET n == Min(request, PipeCap - Len(m.pipe))
        pos == m.window[t][2]
        put == SubSeq(m.resource[t].data, pos + 1, pos + n)
        m1 == [m EXCEPT !.pipe = @ \o put]
        m2 == IF n > 0 THEN KEdge(m1, Peer(t)) ELSE m1
    IN IF ~PortOpen(m, PortOf(t)) \/ KHangup(m, t)
       THEN [m |-> m, xfer |-> <<>>, stat |-> "io_terminate"]
       ELSE [m |-> m2, xfer |-> put,
             stat |-> IF n = request THEN "io_flow" ELSE "io_stop"]

Channel_NoteEvent(m, t, ev) == [m EXCEPT !.events[t] = @ \cup {ev}]

\* The transfer branch with a stop status that leaves X.transfer set.
flow_transfer_unstopped(m, t) ==
    LET rsize == Len(m.resource[t].data)
        pos == m.window[t][2]
        request == rsize - pos
        m1 == [Channel_NoteEvent(m, t, "transfer")
                  EXCEPT !.pstop[t] = pos]
        io == IF t = "w" THEN port_output_octets(m1, t, request)
              ELSE port_input_octets(m1, t, request)
        m2 == [Channel_ExpandWindow(io.m, t, Len(io.xfer))
                  EXCEPT !.moved[t] = io.xfer]
    IN CASE io.stat = "io_flow" -> Channel_INQualify(m2, t, "transfer")
         [] io.stat = "io_stop" -> m2
         [] OTHER ->
              LET m3 == Channel_NoteEvent(
                            Channel_XQualify(m2, t, "terminate"), t, "terminate")
              IN IF ~Channel_GetControl(m3, t, "requeue")
                 THEN kfilter_cancel(m3, t) ELSE m3

\* The transfer branch of the run loop for one Channel.
flow_transfer(m, t) ==
    LET rsize == Len(m.resource[t].data)
        pos == m.window[t][2]
        request == rsize - pos
        m1 == [Channel_NoteEvent(m, t, "transfer")
                  EXCEPT !.pstop[t] = pos]
        io == IF t = "w" THEN port_output_octets(m1, t, request)
              ELSE port_input_octets(m1, t, request)
        m2 == [Channel_ExpandWindow(io.m, t, Len(io.xfer))
                  EXCEPT !.moved[t] = io.xfer]
    IN CASE io.stat = "io_flow" -> Channel_INQualify(m2, t, "transfer")
         [] io.stat = "io_stop" -> Channel_XNQualify(m2, t, "transfer")
         [] OTHER ->
              LET m3 == Channel_NoteEvent(
                            Channel_XQualify(m2, t, "terminate"), t, "terminate")
              IN IF ~Channel_GetControl(m3, t, "requeue")
                 THEN kfilter_cancel(m3, t) ELSE m3

\* A run loop that looks for a transfer before it looks for termination.
\* A run loop that takes the terminated Channel off the ring as well.
RECURSIVE flow_loop_detaching(_, _)
flow_loop_detaching(m, t) ==
    IF t = J THEN m
    ELSE LET m1 ==
               IF Channel_ShouldTerminate(m, t)
               THEN TRANSIT_DETACH(
                        Channel_NoteEvent(
                            IF ~Channel_GetControl(m, t, "requeue")
                            THEN kfilter_cancel(m, t) ELSE m,
                            t, "terminate"), t)
               ELSE IF Channel_ShouldTransfer(m, t)
               THEN flow_transfer(m, t)
               ELSE m
         IN flow_loop_detaching(m1, m1.lltransfer[t])

RECURSIVE flow_loop_transfers(_, _)
flow_loop_transfers(m, t) ==
    IF t = J THEN m
    ELSE LET m0 == IF Channel_ShouldTransfer(m, t)
                   THEN flow_transfer(m, t) ELSE m
             m1 == IF Channel_ShouldTerminate(m0, t)
                   THEN Channel_NoteEvent(
                            IF ~Channel_GetControl(m0, t, "requeue")
                            THEN kfilter_cancel(m0, t) ELSE m0,
                            t, "terminate")
                   ELSE m0
         IN flow_loop_transfers(m1, m1.lltransfer[t])

RECURSIVE flow_loop(_, _)
flow_loop(m, t) ==
    IF t = J THEN m
    ELSE LET m1 ==
               IF Channel_ShouldTerminate(m, t)
               THEN Channel_NoteEvent(
                        IF ~Channel_GetControl(m, t, "requeue")
                        THEN kfilter_cancel(m, t) ELSE m,
                        t, "terminate")
               ELSE IF Channel_ShouldTransfer(m, t)
               THEN flow_transfer(m, t)
               ELSE m
         IN flow_loop(m1, m1.lltransfer[t])

\* _junction_flow up to Py_BEGIN_ALLOW_THREADS (the GIL is held).
junction_flow_enter(m) ==
    LET m1 == junction_start_cycle(m)
        m2 == IF Channel_Terminating(m1, J) THEN _junction_terminate(m1)
              ELSE IF ~Channel_PortLatched(m1, J)
                   THEN junction_reload(junction_init(m1))
                   ELSE m1
        m3 == junction_transfer_delta(Channel_ClearDelta(m2, J))
    IN IF Junction_ShouldWait(m3) THEN [m3 EXCEPT !.will_wait = 1] ELSE m3

\* The run-transfers loop of _junction_flow.
junction_flow_run(m) == flow_loop(m, m.lltransfer[J])

\* --------------------------------------------------- end of a cycle
NoHistory(m) ==
    [m EXCEPT !.moved = [c \in Chans |-> <<>>],
              !.replaced = [c \in Chans |-> FALSE],
              !.pstop = [c \in Chans |-> 0]]

Channel_ClearEvents(m, t) == [m EXCEPT !.events[t] = {}]

\* The flush loop's first steps without the collapse of the window.
flush_unlist(m, t) == [m EXCEPT !.lltransfer[t] = NULL]

\* The flush loop's first steps with the window collapsed onto its start.
flush_begin_rewound(m, t) ==
    [m EXCEPT !.lltransfer[t] = NULL, !.window[t] = <<@[1], @[1]>>]

\* The flush loop's first steps: off the list, window collapsed.
flush_begin(m, t) ==
    Channel_CollapseWindow([m EXCEPT !.lltransfer[t] = NULL], t)

\* A flush that takes a clear I.transfer alone for exhaustion.
flush_commit_exhausted(m, t) ==
    LET m1 == flush_begin(m, t)
    IN IF Channel_HasEvent(m1, t, "terminate")
       THEN [TRANSIT_DETACH(
                port_unlatch(
                    Channel_ReleaseLink(Channel_ReleaseResource(m1, t), t),
                    PortOf(t), Channel_Polarity(t)), t)
               EXCEPT !.ntransits[J] = @ - 1]
       ELSE IF ~Channel_IQualified(m1, t, "transfer")
            THEN Channel_ReleaseResource(m1, t)
            ELSE m1

\* The body of the flush loop up to the clearing of the events.
flush_commit(m, t) ==
    LET m1 == flush_begin(m, t)
    IN IF Channel_HasEvent(m1, t, "terminate")
       THEN [TRANSIT_DETACH(
                port_unlatch(
                    Channel_ReleaseLink(Channel_ReleaseResource(m1, t), t),
                    PortOf(t), Channel_Polarity(t)), t)
               EXCEPT !.ntransits[J] = @ - 1]
       ELSE IF ~Channel_DQualified(m1, t, "transfer")
               /\ ~Channel_IQualified(m1, t, "transfer")
            THEN Channel_ReleaseResource(m1, t)
            ELSE m1

\* A flush that leaves the events of the cycle in place.
flush_keep_events(m, t) == flush_commit(m, t)

flush_channel(m, t) == Channel_ClearEvents(flush_commit(m, t), t)

RECURSIVE flush_loop(_, _)
flush_loop(m, t) ==
    IF t = J THEN m
    ELSE flush_loop(flush_channel(m, t), m.lltransfer[t])

_junction_flush(m) ==
    junction_finish_cycle(flush_loop(m, m.lltransfer[J]))

RECURSIVE void_loop(_, _)
void_loop(m, t) ==
    IF t = J THEN m
    ELSE LET m1 == [Channel_IQualify(m, t, "terminate") EXCEPT !.lltransfer[t] = NULL]
             m2 == [port_unlatch(m1, PortOf(t), "both") EXCEPT !.port[PortOf(t)].cause = "void"]
             m3 == [m2 EXCEPT !.next[m2.prev[t]] = NULL]
             m4 == [m3 EXCEPT !.prev[t] = NULL]
         IN void_loop(m4, m4.next[t])

\* Junction.void() that drops the members' latches and leaves their
\* descriptors open.
junction_void_leaking(m) ==
    LET m1 == IF Junction_Cycling(m) THEN junction_finish_cycle(m) ELSE m
        m2 == void_loop(m1, m1.next[J])
        m3 == [m2 EXCEPT !.next[J] = J, !.prev[J] = J, !.ntransits[J] = 0,
                         !.port = [p \in Ports |->
                                     IF p = "pj" \/ m2.port[p] = m1.port[p]
                                     THEN m2.port[p]
                                     ELSE [m1.port[p] EXCEPT !.latches = {},
                                                             !.cause = "void"]],
                         !.pipe = m1.pipe, !.filt = m1.filt, !.kev = m1.kev]
    IN port_unlatch(m3, "pj", "both")

\* Junction.void() that keeps its count of members.
junction_void_counted(m) ==
    LET m1 == IF Junction_Cycling(m) THEN junction_finish_cycle(m) ELSE m
        m2 == void_loop(m1, m1.next[J])
        m3 == [m2 EXCEPT !.next[J] = J, !.prev[J] = J]
    IN port_unlatch(m3, "pj", "both")

junction_void(m) ==
    LET m1 == IF Junction_Cycling(m) THEN junction_finish_cycle(m) ELSE m
        m2 == void_loop(m1, m1.next[J])
        m3 == [m2 EXCEPT !.next[J] = J, !.prev[J] = J, !.ntransits[J] = 0]
    IN port_unlatch(m3, "pj", "both")


\* ------------------------------------------------ cycle entry and exit
\* begin_cycle without the test for an open cycle.
junction_enter_nested(m) ==
    IF Channel_Terminating(m, J) /\ ~Channel_PortLatched(m, J)
    THEN [m |-> m, val |-> "TerminatedError"]
    ELSE [m |-> junction_flow_enter(m), val |-> "self"]

junction_enter(m) ==
    IF Channel_Terminating(m, J) /\ ~Channel_PortLatched(m, J)
    THEN [m |-> m, val |-> "TerminatedError"]
    ELSE IF Channel_InCycle(m, J)
    THEN [m |-> m, val |-> "RuntimeError"]
    ELSE [m |-> junction_flow_enter(m), val |-> "self"]

junction_exit(m) == IF Channel_InCycle(m, J) THEN _junction_flush(m) ELSE m

\* ------------------------------------------------- transfer iterator
NoIter == [t |-> NULL, J |-> NULL]

new_jxi(m) == [t |-> m.lltransfer[J], J |-> J]

RECURSIVE jxi_scan(_, _)
jxi_scan(m, this) ==
    IF this # J /\ m.events[this] = {} THEN jxi_scan(m, m.lltransfer[this])
    ELSE this

\* Junction.transfer(): an iterator, or the empty tuple outside a cycle.
junction_transfer(m) == IF Channel_InCycle(m, J) THEN new_jxi(m) ELSE NoIter

jxi_next(m, i) ==
    IF i.t = NULL
    THEN [i |-> i, val |-> "StopIteration"]
    ELSE IF ~Channel_InCycle(m, i.t)
    THEN [i |-> i, val |-> "RuntimeError"]
    ELSE LET this == jxi_scan(m, i.t)
         IN IF this = J
            THEN [i |-> NoIter, val |-> "StopIteration"]
            ELSE [i |-> [i EXCEPT !.t = m.lltransfer[this]], val |-> this]

\* --------------------------------------------------------- the state
\* The Ports as the allocator and the creating call leave them.  alloci
\* and alloco latch the Port before the call is made; whether a failed call
\* takes the latch back is decided outside this file, so both are initial
\* states.
PortsOf(a) ==
    IF a = "iopair"
    THEN {[p \in Ports |->
             [latches |-> IF p = "pw" THEN {"out"} ELSE {"in"},
              point |-> "open", error |-> 0, cause |-> "none"]]}
    ELSE IF a = "io"
    THEN {[p \in Ports |->
             [latches |-> IF p = "pr" THEN {"in", "out"}
                          ELSE IF p = "pw" THEN {} ELSE {"in"},
              point |-> IF p = "pw" THEN "invalid" ELSE "open",
              error |-> 0, cause |-> "none"]]}
    ELSE {[p \in Ports |->
             IF p = "pj"
             THEN [latches |-> {"in"}, point |-> "open", error |-> 0,
                   cause |-> "none"]
             ELSE [latches |-> IF kept THEN (IF p = "pw" THEN {"out"} ELSE {"in"})
                               ELSE {},
                   point |-> "invalid", error |-> 1, cause |-> "pipe"]] :
          kept \in BOOLEAN}

\* The state after construction, the Channels made by allocator a.
Allocated(a) ==
    /\ alloc = a
    /\ backend \in Backends
    /\ junction = [n \in Nodes |-> IF n \in Junctions THEN n ELSE NULL]
    /\ prev = [n \in Nodes |-> IF n \in Junctions THEN n ELSE NULL]
    /\ next = [n \in Nodes |-> IF n \in Junctions THEN n ELSE NULL]
    /\ lltransfer = [n \in Nodes |-> NULL]
    /\ resource = [c \in Chans |-> NoResource]
    /\ window = [c \in Chans |-> <<0, 0>>]
    /\ state = [n \in Nodes |-> IF n \in Junctions THEN {"xtransfer", "polarity"}
                                ELSE IF n = "r" THEN {"polarity"} ELSE {}]
    /\ delta = [n \in Nodes |-> {}]
    /\ events = [c \in Chans |-> {}]
    /\ link = [c \in Chans |-> FALSE]
    /\ port \in {[q EXCEPT !["pn"] = port_new("invalid")] : q \in PortsOf(a)}
    /\ ntransits = [j \in Junctions |-> 0]
    /\ will_wait = 0
    /\ haswrites = 0
    /\ countdown = 0
    /\ polled = <<>>
    /\ pipe = <<>>
    /\ filt = [c \in Chans |-> FALSE]
    /\ kev = [c \in Chans |-> FALSE]
    /\ wake = FALSE
    /\ pc = "idle"
    /\ inflow = 0
    /\ jxi = NoIter
    /\ stale = FALSE
    /\ stream = 0
    /\ moved = [c \in Chans |-> <<>>]
    /\ replaced = [c \in Chans |-> FALSE]
    /\ pstop = [c \in Chans |-> 0]
    /\ log = [c \in Chans |-> <<>>]
    /\ forced = FALSE

\* A pipe pair: two Channels with a Port each.
Init == Allocated("iopair")

\* The input and output Channel of one descriptor, sharing its Port.
InitIO == Allocated("io")

\* A pipe pair whose pipe(2) failed.
InitFailed == Allocated("failed")

\* --------------------------------------------- caller operations (GIL)
\* A resource object other than the one held.
OtherObject(id) == IF id = 1 THEN 2 ELSE 1

\* What a caller appends to its record for a result of transfer().
Region(x) == IF x = None THEN <<>> ELSE x

hvars == <<alloc, backend, pc, inflow, jxi, stale, stream, log, forced>>

(* Channel.acquire(resource).  The writer's resources carry the next bytes *)
(* of the stream.  A caller that replaces the resource of a Channel with a *)
(* transfer event reads transfer() first.                                  *)
ChannelAcquire(t, n) ==
    LET res == [id |-> OtherObject(resource[t].id),
                data |-> [i \in 1..n |-> IF t = "w" THEN stream + i ELSE 0]]
        r == transit_acquire(Cur, t, res)
        took == r.val = "self" /\ Channel_HasEvent(Cur, t, "transfer")
    IN /\ t = "w" => stream + n <= MaxBytes
       /\ Install([r.m EXCEPT !.replaced[t] = @ \/ took])
       /\ stream' = IF t = "w" /\ r.val = "self" THEN stream + n ELSE stream
       /\ log' = IF took THEN [log EXCEPT ![t] = @ \o Region(transit_transfer(Cur, t))]
                 ELSE log
       /\ UNCHANGED <<alloc, backend, pc, inflow, jxi, stale, forced>>

\* Channel.terminate()
ChannelTerminate(t) ==
    /\ Install(transit_terminate(Cur, t))
    /\ UNCHANGED hvars

\* Channel.force()
ChannelForce(t) ==
    /\ Install(transit_force(Cur, t))
    /\ UNCHANGED hvars

\* Channel.link = object
SetLink(t) ==
    /\ ~link[t] /\ junction[t] = NULL /\ ~Channel_Terminated(Cur, t)
    /\ Install([Cur EXCEPT !.link[t] = TRUE])
    /\ UNCHANGED hvars

\* Port(id = kid)
PortNew(kid) ==
    /\ Install([Cur EXCEPT !.port["pn"] = port_new(kid)])
    /\ UNCHANGED hvars

\* Port.leak()
PortLeak(p) ==
    /\ Install(port_leak(Cur, p))
    /\ UNCHANGED hvars

\* Port.shatter()
PortShatter(p) ==
    /\ Install(port_shatter(Cur, p))
    /\ UNCHANGED hvars

\* Junction.acquire(channel)
JunctionAcquire(t) ==
    /\ Install(junction_acquire(Cur, t).m)
    /\ UNCHANGED hvars

\* K.acquire(channel), K a second Junction that runs no cycle
OtherAcquire(t) ==
    /\ Install(junction_acquire_by(Cur, K, t).m)
    /\ UNCHANGED hvars

\* Junction.force()
JunctionForce ==
    /\ Install(junction_force(Cur).m)
    /\ forced' = (forced \/ (pc = "collect" /\ ~Channel_Terminating(Cur, J)))
    /\ UNCHANGED <<alloc, backend, pc, inflow, jxi, stale, stream, log>>

\* Junction.terminate()
JunctionTerminate ==
    /\ Install(transit_terminate(Cur, J))
    /\ UNCHANGED hvars

\* Junction.void(), by a thread outside the I/O phase
JunctionVoid ==
    /\ pc \in {"idle", "open"}
    /\ Install(NoHistory(junction_void(Cur)))
    /\ pc' = "idle"
    /\ stale' = (stale \/ (jxi.J # NULL /\ pc = "open"))
    /\ UNCHANGED <<alloc, backend, inflow, jxi, stream, log, forced>>

\* Junction.transfer()
JunctionTransfer ==
    /\ jxi' = junction_transfer(Cur)
    /\ stale' = FALSE
    /\ UNCHANGED <<alloc, backend, pc, inflow, stream, log, forced>>
    /\ UNCHANGED mvars

\* next(iterator)
IterNext ==
    /\ jxi.J # NULL
    /\ jxi' = jxi_next(Cur, jxi).i
    /\ UNCHANGED <<alloc, backend, pc, inflow, stale, stream, log, forced>>
    /\ UNCHANGED mvars

\* ------------------------------------------------------------ cycles
\* A thread that keeps the exclusive token where _junction_flow gives it up.
Py_BEGIN_ALLOW_THREADS_held(n) == n

\* The count of threads that run without the exclusive token: a thread
\* gives the token up for the I/O phase and takes it again after it.
Py_BEGIN_ALLOW_THREADS(n) == n + 1
Py_END_ALLOW_THREADS(n) == n - 1

\* _junction_flow between Py_BEGIN_ALLOW_THREADS and the collect.
junction_flow_apply(m) == junction_apply_delta(m)

\* Junction.begin_cycle(), by any thread, up to the collect of the I/O phase
BeginCycle ==
    LET r == junction_enter(Cur)
        m == junction_flow_apply(r.m)
    IN /\ Install(IF r.val = "self" THEN m ELSE r.m)
       /\ pc' = IF r.val # "self" THEN pc
                ELSE IF Channel_Terminating(m, J) THEN "run" ELSE "collect"
       /\ inflow' = IF r.val = "self" THEN Py_BEGIN_ALLOW_THREADS(inflow) ELSE inflow
       /\ UNCHANGED <<alloc, backend, jxi, stale, stream, log, forced>>

Orders == {<<"r", "w">>, <<"w", "r">>}

\* I/O phase: the collects and transforms, then the transfers; begin_cycle
\* returns.  The first collect waits iff the transfer list is empty, and
\* then returns once there is something.
Collect(order) ==
    /\ pc = "collect"
    /\ Junction_ShouldWait(Cur) => CollectReady(Cur, backend)
    /\ backend = "epoll" => order = <<"r", "w">>
    /\ Install(junction_flow_run(junction_kevent_rounds(Cur, backend, order)))
    /\ pc' = "open"
    /\ inflow' = Py_END_ALLOW_THREADS(inflow)
    /\ forced' = FALSE
    /\ UNCHANGED <<alloc, backend, jxi, stale, stream, log>>

\* I/O phase: the waiting collect ran into its timeout
CollectTimeout ==
    /\ pc = "collect"
    /\ Junction_ShouldWait(Cur) /\ ~CollectReady(Cur, backend)
    /\ Install(junction_flow_run(
                   junction_kevent_rounds(Cur, backend, <<"r", "w">>)))
    /\ pc' = "open"
    /\ inflow' = Py_END_ALLOW_THREADS(inflow)
    /\ forced' = FALSE
    /\ UNCHANGED <<alloc, backend, jxi, stale, stream, log>>

\* I/O phase of a terminating Junction: no collect, only the transfers
RunTransfers ==
    /\ pc = "run"
    /\ Install(junction_flow_run(Cur))
    /\ pc' = "open"
    /\ inflow' = Py_END_ALLOW_THREADS(inflow)
    /\ forced' = FALSE
    /\ UNCHANGED <<alloc, backend, jxi, stale, stream, log>>

\* The Channels a fresh iterator of this cycle yields.
RECURSIVE Yielded(_, _)
Yielded(m, t) ==
    IF t = J \/ t = NULL THEN {}
    ELSE (IF m.events[t] # {} THEN {t} ELSE {}) \cup Yielded(m, m.lltransfer[t])

\* The caller reads transfer() of every Channel the cycle yields with a
\* transfer event before it closes the cycle.
ReadTransfers(m) ==
    [c \in Chans |->
        IF c \in Yielded(m, m.lltransfer[J]) /\ Channel_HasEvent(m, c, "transfer")
        THEN log[c] \o Region(transit_transfer(m, c)) ELSE log[c]]

\* Junction.end_cycle(), by the thread that owns the cycle
EndCycle ==
    /\ pc \in {"idle", "open"}
    /\ Install(NoHistory(junction_exit(Cur)))
    /\ pc' = "idle"
    /\ log' = ReadTransfers(Cur)
    /\ stale' = (stale \/ (jxi.J # NULL /\ pc = "open"))
    /\ UNCHANGED <<alloc, backend, inflow, jxi, stream, forced>>

\* ---------------------------------------------------- specifications
\* The cycle engine with the Channel operations.
Next ==
    \/ \E t \in Chans, n \in Sizes : ChannelAcquire(t, n)
    \/ \E t \in Chans : ChannelTerminate(t)
    \/ \E t \in Chans : ChannelForce(t)
    \/ \E t \in Chans : JunctionAcquire(t)
    \/ BeginCycle
    \/ \E order \in Orders : Collect(order)
    \/ CollectTimeout
    \/ EndCycle

Spec == Init /\ [][Next]_vars

\* The cycle engine with every way a Channel's termination commits; the
\* resources are of the largest size.
NextEnd ==
    \/ \E t \in Chans : ChannelAcquire(t, MaxSize)
    \/ \E t \in Chans : ChannelTerminate(t)
    \/ \E t \in Chans : SetLink(t)
    \/ \E t \in Chans : JunctionAcquire(t)
    \/ JunctionTerminate
    \/ JunctionVoid
    \/ BeginCycle
    \/ \E order \in Orders : Collect(order)
    \/ CollectTimeout
    \/ RunTransfers
    \/ EndCycle

SpecEnd == Init /\ [][NextEnd]_vars

\* The cycle engine with every operation on Channels that changes the ring
\* or the transfer list; the resources are of the largest size.
NextRing ==
    \/ \E t \in Chans : ChannelAcquire(t, MaxSize)
    \/ \E t \in Chans : ChannelTerminate(t)
    \/ \E t \in Chans : ChannelForce(t)
    \/ \E t \in Chans : JunctionAcquire(t)
    \/ JunctionVoid
    \/ BeginCycle
    \/ \E order \in Orders : Collect(order)
    \/ CollectTimeout
    \/ EndCycle

SpecRing == Init /\ [][NextRing]_vars

\* Two Junctions that acquire the same Channels; J runs the cycles.
NextOwn ==
    \/ \E t \in Chans : ChannelTerminate(t)
    \/ \E t \in Chans : JunctionAcquire(t)
    \/ \E t \in Chans : OtherAcquire(t)
    \/ JunctionTerminate
    \/ BeginCycle
    \/ \E order \in Orders : Collect(order)
    \/ CollectTimeout
    \/ RunTransfers
    \/ EndCycle

SpecOwn == Init /\ [][NextOwn]_vars

\* The cycle engine with the two siblings of one Port.
NextIO ==
    \/ \E t \in Chans : ChannelAcquire(t, MaxSize)
    \/ \E t \in Chans : ChannelTerminate(t)
    \/ \E t \in Chans : JunctionAcquire(t)
    \/ BeginCycle
    \/ \E order \in Orders : Collect(order)
    \/ CollectTimeout
    \/ EndCycle

SpecIO == InitIO /\ [][NextIO]_vars

\* The cycle engine with Channels whose creating call failed.
NextFailed ==
    \/ \E t \in Chans : ChannelAcquire(t, MaxSize)
    \/ \E t \in Chans : ChannelForce(t)
    \/ \E t \in Chans : JunctionAcquire(t)
    \/ BeginCycle
    \/ \E order \in Orders : Collect(order)
    \/ CollectTimeout
    \/ EndCycle

SpecFailed == InitFailed /\ [][NextFailed]_vars

\* The Ports' own operations next to termination and void.
NextPort ==
    \/ \E kid \in {"open", "invalid"} : PortNew(kid)
    \/ \E p \in {"pr", "pn"} : PortLeak(p)
    \/ \E p \in {"pw", "pn"} : PortShatter(p)
    \/ \E t \in Chans : ChannelTerminate(t)
    \/ \E t \in Chans : JunctionAcquire(t)
    \/ JunctionVoid
    \/ BeginCycle
    \/ \E order \in Orders : Collect(order)
    \/ CollectTimeout
    \/ EndCycle

SpecPort == Init /\ [][NextPort]_vars

\* The cycle engine with the Junction's own operations.
NextWake ==
    \/ \E t \in Chans, n \in Sizes : ChannelAcquire(t, n)
    \/ \E t \in Chans : JunctionAcquire(t)
    \/ JunctionForce
    \/ JunctionTerminate
    \/ BeginCycle
    \/ \E order \in Orders : Collect(order)
    \/ CollectTimeout
    \/ RunTransfers
    \/ EndCycle

SpecWake == Init /\ [][NextWake]_vars

\* The worker's collect comes back when it has something to come back for.
CollectReturns ==
    /\ pc = "collect"
    /\ Junction_ShouldWait(Cur) => CollectReady(Cur, backend)
    /\ pc' = "open"

\* The transfers of a terminating Junction run to their end.
TransfersReturn == pc = "run" /\ pc' = "open"

\* The worker is scheduled.  The 9 s timeout of the wait is left out of
\* the fairness, so that progress rests on the wakeup alone.
FairWake ==
    /\ SpecWake
    /\ WF_pc(CollectReturns)
    /\ WF_pc(TransfersReturn)

\* The caller begins a cycle whenever the Junction accepts one: no cycle
\* is open and the Junction has not terminated (the tests of junction_enter).
CycleBegins ==
    /\ pc = "idle"
    /\ ~(Channel_Terminating(Cur, J) /\ ~Channel_PortLatched(Cur, J))
    /\ ~Channel_InCycle(Cur, J)
    /\ pc' \in {"collect", "run"}

\* The collect returns: for readiness, for a wakeup, or after its timeout.
CollectEnds == pc = "collect" /\ pc' = "open"

\* The caller leaves the cycle it is in.
CycleEnds == pc = "open" /\ pc' = "idle"

\* Cycles keep being run: the caller begins and ends them, and no phase of
\* a cycle lasts for ever (the wait of the collect is bounded by its
\* timeout).
FairDrain ==
    /\ SpecWake
    /\ WF_pc(CycleBegins)
    /\ WF_pc(CollectEnds)
    /\ WF_pc(TransfersReturn)
    /\ WF_pc(CycleEnds)

\* The cycle engine with the transfer iterator.
NextIter ==
    \/ \E t \in Chans, n \in Sizes : ChannelAcquire(t, n)
    \/ \E t \in Chans : JunctionAcquire(t)
    \/ JunctionTransfer
    \/ IterNext
    \/ BeginCycle
    \/ \E order \in Orders : Collect(order)
    \/ CollectTimeout
    \/ EndCycle

SpecIter == Init /\ [][NextIter]_vars

\* The transfer iterator with callers that terminate, force and re-acquire
\* Channels while it is in use: the writer is given resources of the
\* smallest size and forced, both are terminated.
NextYield ==
    \/ ChannelAcquire("w", 1)
    \/ \E t \in Chans : ChannelTerminate(t)
    \/ ChannelForce("w")
    \/ \E t \in Chans : JunctionAcquire(t)
    \/ JunctionTransfer
    \/ IterNext
    \/ BeginCycle
    \/ \E order \in Orders : Collect(order)
    \/ CollectTimeout
    \/ EndCycle

SpecYield == Init /\ [][NextYield]_vars

\* ------------------------------------------- the collects one by one
\* unsigned int countdown = 3 of _junction_flow.
Countdown == 3

\* CONFIG_DEFAULT_JUNCTION_SIZE: the events one collect can return.
JunctionSize == 16

\* The last collect filled the event array.  A collect returns at most
\* one event per filter and one for the wakeup.
Junction_MaxCollected(m) == Cardinality(Chans) + 1 >= JunctionSize

\* The object junction_kevent_collect polls.
junction_kevent_polled(m, be) ==
    IF be = "kqueue" THEN "kq"
    ELSE IF m.haswrites = 1 THEN "wfd" ELSE "rfd"

\* junction_kevent_collect and the junction_kevent_transform after it.
junction_kevent_round(m, be, order) ==
    LET m1 == IF be = "kqueue"
              THEN TransformAll([m EXCEPT !.wake = FALSE], order, TRUE)
              ELSE epoll_round(m)
    IN [m1 EXCEPT !.polled = Append(m.polled, junction_kevent_polled(m, be))]

\* A first collect that leaves two further rounds.
flow_first_collect_short(m, be, order) ==
    [junction_kevent_round([m EXCEPT !.polled = <<>>], be, order)
        EXCEPT !.will_wait = 0, !.countdown = Countdown - 1]

\* The first collect of the cycle, the one that may wait, and its transform.
flow_first_collect(m, be, order) ==
    [junction_kevent_round([m EXCEPT !.polled = <<>>], be, order)
        EXCEPT !.will_wait = 0, !.countdown = Countdown]

\* The condition of the loop of further collects.
flow_collect_again(m, be) ==
    IF be = "epoll" THEN m.countdown > 0
    ELSE Junction_MaxCollected(m) /\ m.countdown > 0

\* I/O phase: the first collect returns, for readiness, for a wakeup or
\* after its timeout.
CollectFirst(order) ==
    /\ pc = "collect"
    /\ backend = "epoll" => order = <<"r", "w">>
    /\ Install(flow_first_collect(Cur, backend, order))
    /\ pc' = "rounds"
    /\ UNCHANGED <<alloc, backend, inflow, jxi, stale, stream, log, forced>>

\* I/O phase: one further collect, which never waits, and its transform.
CollectNext ==
    /\ pc = "rounds"
    /\ flow_collect_again(Cur, backend)
    /\ Install([junction_kevent_round(Cur, backend, <<"r", "w">>)
                   EXCEPT !.countdown = @ - 1])
    /\ UNCHANGED hvars

\* I/O phase: the collects are over, the transfers run and begin_cycle
\* returns.
CollectDone ==
    /\ pc = "rounds"
    /\ ~flow_collect_again(Cur, backend)
    /\ Install([junction_flow_run(Cur) EXCEPT !.countdown = 0])
    /\ pc' = "open"
    /\ inflow' = Py_END_ALLOW_THREADS(inflow)
    /\ forced' = FALSE
    /\ UNCHANGED <<alloc, backend, jxi, stale, stream, log>>

\* The cycle engine with callers that run between the collects of a cycle.
NextPoll ==
    \/ \E t \in Chans, n \in Sizes : ChannelAcquire(t, n)
    \/ \E t \in Chans : ChannelTerminate(t)
    \/ \E t \in Chans : JunctionAcquire(t)
    \/ BeginCycle
    \/ \E order \in Orders : CollectFirst(order)
    \/ CollectNext
    \/ CollectDone
    \/ EndCycle

SpecPoll == Init /\ [][NextPoll]_vars

\* The worker's next step once the first collect has returned: a further
\* collect, or the transfers.
RoundsAdvance ==
    /\ pc = "rounds"
    /\ IF flow_collect_again(Cur, backend)
       THEN pc' = "rounds" /\ countdown' = countdown - 1
       ELSE pc' = "open" /\ countdown' = 0

\* The worker is scheduled while it is not inside the waiting collect: the
\* further collects do not wait and the transfers do not block.
FairPoll == SpecPoll /\ WF_<<pc, countdown>>(RoundsAdvance)

\* -------------------------------------------------------------- claims
\* Some resource object the Channel does not hold.
AnotherResource(t) == [id |-> OtherObject(resource[t].id), data |-> <<0>>]

(* C1: while a Channel that is not terminating holds a resource it got    *)
(* from acquire and that no transfer has exhausted, a further acquire     *)
(* fails with the resource error and changes nothing.  The case stated    *)
(* here is the attached Channel whose acquire no begin_cycle has taken up *)
(* yet (D.transfer is still pending).                                     *)
C1_SecondAcquireFails ==
    \A t \in Chans :
        (/\ Channel_Attached(Cur, t)
         /\ ~Channel_Terminating(Cur, t)
         /\ Channel_HasResource(Cur, t)
         /\ Channel_DQualified(Cur, t, "transfer"))
        => LET r == transit_acquire(Cur, t, AnotherResource(t))
           IN r.val = "ResourceError" /\ r.m = Cur

(* C2: after end_cycle, whatever the callers did inside the cycle, every *)
(* Channel has no events and no next_transfer, and the transfer list of  *)
(* the Junction is closed (its head is NULL).                            *)
C2_CycleLeavesNothing ==
    pc = "idle" =>
        /\ lltransfer[J] = NULL
        /\ \A c \in Chans : events[c] = {} /\ lltransfer[c] = NULL

\* A cycle with a transfer of the writer was closed, and its end_cycle
\* detached a Channel that had been a member.
C2_Witness ==
    /\ pc = "idle"
    /\ log["w"] # <<>>
    /\ \E c \in Chans : junction[c] = J /\ ~Channel_Attached(Cur, c)
    /\ \E c \in Chans : Channel_Attached(Cur, c)

Stream == [i \in 1..stream |-> i]

\* Nothing is left in the pipe and both ends have closed their cycle.
Drained == pc = "idle" /\ pipe = <<>> /\ PortOpen(Cur, "pr")

\* The regions transfer() has reported to the caller, this cycle's included.
Reported(c) == ReadTransfers(Cur)[c]

Committed(c) == Channel_Terminated(Cur, c) /\ ~Channel_Attached(Cur, c)

(* C6: a Channel whose termination has been committed, by end_cycle, by a *)
(* terminate() while detached or by void, holds neither a resource nor a  *)
(* link, and Junction.acquire refuses it and leaves every ring alone.     *)
C6_TerminatedHoldsNothing ==
    \A c \in Chans :
        Committed(c) =>
            /\ ~Channel_HasResource(Cur, c)
            /\ ~link[c]
            /\ LET r == junction_acquire(Cur, c)
               IN r.val = "TerminatedError" /\ r.m = Cur

\* The Channel is past a terminate() made outside the I/O phase: it is
\* terminating outside the I/O phase, or terminated.
Terminate_Requested(c) ==
    \/ Channel_Terminated(Cur, c)
    \/ pc \in {"idle", "open"} /\ Channel_Terminating(Cur, c)

(* C7: Channel.terminate() outside the I/O phase leaves the Channel      *)
(* terminating for good; from then on Channel.acquire returns without    *)
(* error and borrows nothing (it changes no field), and no transfer      *)
(* event is noted for the Channel any more.                              *)
C7_TerminateThenAcquire ==
    /\ [](\A c \in Chans :
            Terminate_Requested(c) =>
                LET r == transit_acquire(Cur, c, AnotherResource(c))
                IN r.val = "None" /\ r.m = Cur)
    /\ [][\A c \in Chans :
            ChannelTerminate(c) /\ pc \in {"idle", "open"} =>
                Terminate_Requested(c)']_vars
    /\ [][\A c \in Chans :
            Terminate_Requested(c) =>
                /\ Terminate_Requested(c)'
                /\ Channel_HasEvent(Cur, c, "transfer")' =>
                       Channel_HasEvent(Cur, c, "transfer")]_vars

\* terminate() on an attached Channel: the cycle delivers the terminate
\* event alone, and acquire still borrows nothing.
C7_Witness ==
    \E c \in Chans :
        /\ pc = "open"
        /\ Channel_Attached(Cur, c)
        /\ Channel_IQualified(Cur, c, "terminate")
        /\ events[c] = {"terminate"}
        /\ transit_acquire(Cur, c, AnotherResource(c)).val = "None"

(* C8: Junction.force() on a Junction that is not terminating returns   *)
(* true exactly when a worker is in the waiting state of a cycle        *)
(* (will_wait is set), and false when none is.                          *)
C8_ForceTellsWaiting ==
    ~Channel_Terminating(Cur, J) =>
        junction_force(Cur).val = IF will_wait = 1 THEN "True" ELSE "False"

\* The collect the worker is in has nothing but the wakeup to return for.
OnlyWoken ==
    /\ pc = "collect" /\ forced
    /\ Junction_ShouldWait(Cur)
    /\ \A c \in Chans : ~kev[c]

(* C9: once Junction.force() ran while the worker was in its collect,   *)
(* the worker's begin_cycle returns; when the collect had nothing but   *)
(* the wakeup to return for, the cycle it opens has an empty transfer   *)
(* list and changed no Channel's window, state or events, the wakeup is *)
(* used up, and a Junction that is not terminating and between cycles   *)
(* accepts the next begin_cycle.                                        *)
C9_ForceReturnsWorker ==
    /\ forced ~> (pc = "open")
    /\ [][OnlyWoken /\ pc' = "open" =>
            /\ lltransfer'[J] = J
            /\ window' = window /\ state' = state /\ events' = events
            /\ ~wake']_vars
    /\ [](pc = "idle" /\ ~Channel_Terminating(Cur, J) =>
            junction_enter(Cur).val = "self")

\* The worker waits with nothing ready, and force() has posted the wakeup.
C9_Witness == OnlyWoken /\ will_wait = 1 /\ wake /\ ntransits[J] > 0

(* C10: next() on a transfer iterator whose cycle has ended raises       *)
(* RuntimeError, whether or not a later cycle of the Junction is open;   *)
(* in particular it yields no Channel of the later cycle.                *)
C10_StaleIteratorRaises ==
    stale /\ jxi.J # NULL => jxi_next(Cur, jxi).val = "RuntimeError"

\* The members of j's ring: what the next links from j reach before j.
RECURSIVE RingFrom(_, _, _, _)
RingFrom(m, j, t, fuel) ==
    IF t = j \/ t = NULL \/ fuel = 0 THEN {}
    ELSE {t} \cup RingFrom(m, j, m.next[t], fuel - 1)

RingMembers(m, j) == RingFrom(m, j, m.next[j], Cardinality(Nodes))

\* Junction j refuses Channel c.
Refuses(j, c) ==
    \/ Channel_Terminating(Cur, j)
    \/ ~Channel_Attached(Cur, c) /\ Channel_Terminated(Cur, c)
    \/ Channel_Attached(Cur, c) /\ junction[c] # j

(* C11: Junction.acquire(c) raises when c is detached and terminated,    *)
(* when another Junction owns c, or when the Junction is terminating,    *)
(* and then changes nothing; acquiring a Channel the Junction already    *)
(* owns succeeds and changes nothing; no Channel is on two rings.        *)
C11_AcquireRefusals ==
    /\ \A j \in Junctions, c \in Chans :
          LET r == junction_acquire_by(Cur, j, c)
          IN /\ Refuses(j, c) =>
                   r.val \in {"TerminatedError", "ResourceError"} /\ r.m = Cur
             /\ ~Refuses(j, c) /\ Channel_Attached(Cur, c) =>
                   r.val = "self" /\ r.m = Cur
    /\ RingMembers(Cur, J) \cap RingMembers(Cur, K) = {}

\* One Channel is owned by K, the other is detached and terminated, and J
\* owns nothing: J refuses both.
C11_Witness ==
    /\ "r" \in RingMembers(Cur, K) /\ Refuses(J, "r")
    /\ ~Channel_Attached(Cur, "w") /\ Channel_Terminated(Cur, "w")
    /\ ~Channel_Terminating(Cur, J)

(* C12: every attached Channel refers to the Junction whose ring it is  *)
(* on and is reached from that Junction by next links, and every member *)
(* of a Junction's ring refers to that Junction.                        *)
C12_AttachedOnRing ==
    \A c \in Chans :
        /\ Channel_Attached(Cur, c) =>
              junction[c] \in Junctions /\ c \in RingMembers(Cur, junction[c])
        /\ \A j \in Junctions : c \in RingMembers(Cur, j) => junction[c] = j

\* Both Channels are members in an open cycle, and the one at the tail has
\* published a delta.
C12_Witness ==
    /\ RingMembers(Cur, J) = Chans
    /\ pc = "open"
    /\ next[J] = "w" /\ prev[J] = "r"
    /\ Channel_DQualified(Cur, "r", "transfer")

\* Every node of J's ring, J included.
RingNodes == RingMembers(Cur, J) \cup {J}

(* C13: the ring of J is a circular doubly linked list with J as its    *)
(* sentinel: next and prev are inverse on it, J.next = J and J.prev = J *)
(* hold exactly when it has no member, and the population counter is    *)
(* the number of members.                                               *)
C13_RingWellFormed ==
    /\ \A x \in RingNodes :
          /\ next[x] \in RingNodes /\ prev[x] \in RingNodes
          /\ prev[next[x]] = x /\ next[prev[x]] = x
    /\ (next[J] = J) <=> (RingMembers(Cur, J) = {})
    /\ (prev[J] = J) <=> (RingMembers(Cur, J) = {})
    /\ ntransits[J] = Cardinality(RingMembers(Cur, J))

\* A termination commit took one of two members out of the ring.
C13_Witness ==
    /\ Cardinality(RingMembers(Cur, J)) = 1
    /\ \E c \in Chans : Channel_Terminated(Cur, c) /\ ~Channel_Attached(Cur, c)
                        /\ junction[c] = J
                        /\ port[PortOf(c)].cause # "void"
    /\ ntransits[J] = 1

\* The Channels of the transfer list: what next_transfer links reach from
\* the Junction's head before the Junction.
RECURSIVE ListFrom(_, _, _)
ListFrom(m, t, fuel) ==
    IF t = J \/ t = NULL \/ fuel = 0 THEN {}
    ELSE {t} \cup ListFrom(m, m.lltransfer[t], fuel - 1)

TransferList == ListFrom(Cur, lltransfer[J], Cardinality(Nodes))

(* C14: a Channel's next_transfer is set exactly when the Junction is in *)
(* a cycle (its own next_transfer is set) and the Channel is reached    *)
(* from the Junction's head by next_transfer links.                     *)
C14_ListedIffOnList ==
    \A c \in Chans :
        lltransfer[c] # NULL <=> (Junction_Cycling(Cur) /\ c \in TransferList)

\* Both Channels are on the list of an open cycle.
C14_Witness == pc = "open" /\ TransferList = Chans

(* C15: of the two siblings of one Port, a termination commit clears    *)
(* the latch of its own polarity and no other; the descriptor is open   *)
(* as long as a latch is set, is closed when the last latch is cleared, *)
(* and is not opened again.                                             *)
C15_SiblingsShareDescriptor ==
    /\ [](\A c \in Chans :
             Channel_Polarity(c) \in port[PortOf(c)].latches <=> ~Committed(c))
    /\ [](port["pr"].latches # {} <=> PortOpen(Cur, "pr"))
    /\ [][~PortOpen(Cur, "pr") => ~PortOpen(Cur, "pr")']_vars

\* One sibling's termination is committed and the other moves octets in
\* an open cycle.
C15_Witness ==
    \E c \in Chans :
        /\ alloc = "io" /\ Committed(c)
        /\ pc = "open"
        /\ "transfer" \in events[Peer(c)] /\ moved[Peer(c)] # <<>>
        /\ PortOpen(Cur, "pr")

\* Junction.acquire's connect is published and no cycle has taken it up.
ConnectPending(c) == "connect" \in delta[c]

(* C16: a Channel whose creating call failed is accepted by            *)
(* Junction.acquire; the cycle that takes up its connect notes the      *)
(* terminate event for it and nothing else, installs no filter, and     *)
(* detaches it at its end; from then on it stays detached and no cycle  *)
(* notes an event for it.                                               *)
C16_BornTerminated ==
    /\ [](\A c \in Chans :
             /\ ~Channel_Attached(Cur, c) /\ ~Channel_Terminated(Cur, c) =>
                   junction_acquire(Cur, c).val = "self"
             /\ pc = "open" /\ Channel_Attached(Cur, c)
                  /\ ~ConnectPending(c) =>
                   events[c] = {"terminate"}
             /\ pc = "idle" /\ Channel_Attached(Cur, c) =>
                   ConnectPending(c)
             /\ ~filt[c] /\ "transfer" \notin events[c]
             /\ Committed(c) => events[c] = {} /\ lltransfer[c] = NULL)
    /\ [][\A c \in Chans :
             /\ Committed(c) => Committed(c)'
             /\ "terminate" \in events[c] /\ pc' = "idle" => Committed(c)']_vars

\* The first cycle after the acquire of a failed Channel that was given a
\* resource: the terminate event alone.
C16_Witness ==
    \E c \in Chans :
        /\ alloc = "failed" /\ pc = "open"
        /\ Channel_Attached(Cur, c) /\ Channel_HasResource(Cur, c)
        /\ events[c] = {"terminate"}
        /\ Channel_PortError(Cur, c)

(* C17: after Junction.terminate(), with cycles kept running, every     *)
(* member's termination is committed and the ring becomes empty with a  *)
(* population of 0; a member leaves the ring only in a cycle that noted *)
(* its terminate event, and stays out without events; a terminated      *)
(* Junction refuses begin_cycle, and a terminating one Junction.acquire.*)
C17_JunctionDrains ==
    /\ \A c \in Chans :
          (Channel_Terminating(Cur, J) /\ Channel_Attached(Cur, c)) ~> Committed(c)
    /\ Channel_Terminating(Cur, J) ~>
          (RingMembers(Cur, J) = {} /\ ntransits[J] = 0
              /\ Channel_Terminated(Cur, J))
    /\ [][\A c \in Chans :
             /\ Channel_Attached(Cur, c) /\ ~Channel_Attached(Cur, c)' =>
                   events[c] = {"terminate"}
             /\ Committed(c) => Committed(c)' /\ events'[c] = {}]_vars
    /\ [](Channel_Terminated(Cur, J) => junction_enter(Cur).val = "TerminatedError")
    /\ [](Channel_Terminating(Cur, J) =>
             \A c \in Chans : LET r == junction_acquire(Cur, c)
                              IN r.val = "TerminatedError" /\ r.m = Cur)

\* The Junction terminated with both Channels on its ring, and the cycle
\* that does it has noted their terminate events.
C17_Witness ==
    /\ Channel_Terminated(Cur, J)
    /\ RingMembers(Cur, J) = Chans
    /\ pc = "open"
    /\ \A c \in Chans : events[c] = {"terminate"}

\* The fields Channel.terminate() leaves alone on an attached Channel.
Unpublished(m) ==
    <<m.junction, m.lltransfer, m.resource, m.window, m.state, m.events,
      m.link, m.port, m.ntransits, m.pipe, m.filt, m.kev>>

(* C18: Channel.terminate() on a detached Channel that is not terminated *)
(* commits at once: I.terminate is set, resource and link are released  *)
(* and the Port's latch of that polarity is cleared; a second call      *)
(* changes nothing.  On an attached Channel it sets D.terminate and     *)
(* moves the Channel to the ring's tail, and nothing else but a wakeup; *)
(* the next begin_cycle takes the delta up, that cycle notes the        *)
(* terminate event, and its end detaches the Channel; a Channel leaves  *)
(* the ring only in a cycle that noted the event (or by void), and      *)
(* nothing notes an event for it afterwards.                            *)
C18_TerminateCommits ==
    /\ [](\A c \in Chans :
             LET m1 == transit_terminate(Cur, c)
             IN /\ ~Channel_Attached(Cur, c) /\ ~Channel_Terminated(Cur, c) =>
                      /\ Channel_IQualified(m1, c, "terminate")
                      /\ ~Channel_HasResource(m1, c) /\ ~m1.link[c]
                      /\ Channel_Polarity(c) \notin m1.port[PortOf(c)].latches
                      /\ ~Channel_Attached(m1, c)
                      /\ transit_terminate(m1, c) = m1
                /\ Channel_Attached(Cur, c) /\ ~Channel_Terminating(Cur, c) =>
                      /\ Channel_DQualified(m1, c, "terminate")
                      /\ m1.delta[c] = delta[c] \cup {DQ("terminate")}
                      /\ m1.prev[J] = c /\ m1.next[c] = J
                      /\ Unpublished(m1) = Unpublished(Cur)
                      /\ transit_terminate(m1, c) = m1
                /\ pc = "open" /\ Channel_Attached(Cur, c)
                     /\ Channel_Terminated(Cur, c) => "terminate" \in events[c]
                /\ pc = "idle" /\ Channel_Attached(Cur, c) =>
                      ~Channel_Terminated(Cur, c))
    /\ [][\A c \in Chans :
             /\ Channel_Attached(Cur, c) /\ Channel_DQualified(Cur, c, "terminate")
                  /\ pc = "idle" /\ pc' \in {"collect", "run"} =>
                   Channel_IQualified(Cur, c, "terminate")'
             /\ Channel_Attached(Cur, c) /\ ~Channel_Attached(Cur, c)' =>
                   JunctionVoid \/ "terminate" \in events[c]
             /\ Committed(c) => Committed(c)' /\ events'[c] \subseteq events[c]]_vars

\* A Channel with a resource and a terminate() published in an earlier
\* cycle, in the cycle that notes its terminate event.
C18_Witness ==
    \E c \in Chans :
        /\ pc = "open" /\ Channel_Attached(Cur, c)
        /\ Channel_IQualified(Cur, c, "terminate")
        /\ "terminate" \in events[c]
        /\ Channel_HasResource(Cur, c)

\* A Channel that Junction.void() took off the ring.
Voided(c) == ~Channel_Attached(Cur, c) /\ port[PortOf(c)].cause = "void"

(* C19: Junction.void(), inside or outside a cycle, leaves the ring      *)
(* empty, the population 0 and no cycle open; every member is detached   *)
(* and off the transfer list, and the call notes no event; no later step *)
(* puts a former member on a transfer list or notes an event for it.     *)
C19_VoidDetaches ==
    [][/\ JunctionVoid =>
            /\ next'[J] = J /\ prev'[J] = J /\ ntransits'[J] = 0
            /\ ~Channel_InCycle(Cur, J)' /\ lltransfer'[J] = NULL
            /\ \A c \in Chans :
                  /\ ~Channel_Attached(Cur, c)'
                  /\ lltransfer'[c] = NULL
                  /\ events'[c] = events[c]
                  /\ Channel_Attached(Cur, c) => Voided(c)'
       /\ \A c \in Chans :
             Voided(c) =>
                /\ Voided(c)'
                /\ lltransfer'[c] = NULL
                /\ events'[c] \subseteq events[c]]_vars

\* A cycle after a void delivers the terminate event of a newer member
\* and nothing for the former one.
C19_Witness ==
    \E c, d \in Chans :
        /\ pc = "open" /\ Voided(c) /\ events[c] = {}
        /\ Channel_Attached(Cur, d) /\ "terminate" \in events[d]

C21_BorrowsReleased ==
    \A c \in Chans :
        /\ Committed(c) => ~Channel_HasResource(Cur, c)
        /\ pc = "idle" /\ Channel_HasResource(Cur, c) =>
              \/ Channel_IQualified(Cur, c, "transfer")
              \/ Channel_DQualified(Cur, c, "transfer")

\* This step ran a transfer of c that returned the stop status: fewer
\* bytes than requested moved and the stream did not end.
TransferStopped(c) ==
    /\ pc = "collect" /\ pc' = "open"
    /\ "transfer" \in events'[c] /\ "terminate" \notin events'[c]
    /\ Len(moved'[c]) < Len(resource[c].data) - pstop'[c]

(* C22: a transfer that returns the stop status clears X.transfer and    *)
(* keeps I.transfer and the resource.  While X.transfer is clear, a      *)
(* cycle notes a transfer event for the Channel only when the kernel has *)
(* a readiness event for it; X.transfer is set again only by such an     *)
(* event or by a published force; and the window stop of a resource      *)
(* moves only in a step that notes a transfer event.                     *)
C22_StoppedUntilReady ==
    [][\A c \in Chans :
          /\ TransferStopped(c) =>
                /\ ~Channel_XQualified(Cur, c, "transfer")'
                /\ Channel_IQualified(Cur, c, "transfer")'
                /\ Channel_HasResource(Cur, c)'
                /\ resource'[c].id = resource[c].id
          /\ ~Channel_XQualified(Cur, c, "transfer")
               /\ "transfer" \in events'[c] /\ "transfer" \notin events[c] =>
                pc = "collect" /\ kev[c]
          /\ ~Channel_XQualified(Cur, c, "transfer")
               /\ Channel_XQualified(Cur, c, "transfer")' =>
                \/ pc = "collect" /\ kev[c]
                \/ pc = "idle" /\ pc' = "collect" /\ "force" \in delta[c]
          /\ Channel_HasResource(Cur, c) /\ resource'[c].id = resource[c].id
               /\ window'[c][2] # window[c][2] =>
                "transfer" \in events'[c] /\ "transfer" \notin events[c]]_vars

\* A cycle after the reader's transfer stopped one byte into its resource:
\* the cycle is open, the reader is still stopped and has no event.
C22_Witness ==
    /\ pc = "open" /\ events["r"] = {}
    /\ Channel_IQualified(Cur, "r", "transfer")
    /\ ~Channel_XQualified(Cur, "r", "transfer")
    /\ window["r"] = <<1, 1>>
    /\ Channel_Attached(Cur, "r")

(* C23: a Channel holding a resource has 0 <= start <= stop <= size of   *)
(* the resource, and between cycles start = stop.  While the Channel     *)
(* keeps one resource the stop never decreases, and the start moves only *)
(* at the end of a cycle, onto that cycle's stop.                        *)
C23_WindowInResource ==
    /\ [](\A c \in Chans :
             Channel_HasResource(Cur, c) =>
                /\ 0 <= window[c][1] /\ window[c][1] <= window[c][2]
                /\ window[c][2] <= Len(resource[c].data)
                /\ pc # "open" => window[c][1] = window[c][2])
    /\ [][\A c \in Chans :
             Channel_HasResource(Cur, c) /\ resource'[c].id = resource[c].id =>
                /\ window'[c][2] >= window[c][2]
                /\ window'[c][1] # window[c][1] =>
                      /\ pc = "open" /\ pc' = "idle"
                      /\ window'[c][1] = window[c][2]]_vars

\* The writer's second transfer from one resource has moved its window on
\* to the end of the resource.
C23_Witness ==
    /\ pc = "open" /\ Channel_HasResource(Cur, "w")
    /\ window["w"] = <<1, 2>>
    /\ Len(resource["w"].data) = 2

\* The worker is blocked in the readiness wait: nothing is on the
\* transfer list and the kernel has nothing to report.
Waiting ==
    /\ pc = "collect"
    /\ Junction_ShouldWait(Cur) /\ ~CollectReady(Cur, backend)

PhaseOwned(m, c) == <<m.state[c], m.events[c], m.window[c], m.lltransfer[c]>>

(* C25: while a worker is in the I/O phase of a cycle of J, no call by a *)
(* thread that holds the exclusive token writes the state, events,       *)
(* window or next_transfer of a member of J: not Channel.acquire,        *)
(* Channel.terminate, Channel.force, Junction.end_cycle or Junction.void.*)
C25_CallersLeaveWorkerFields ==
    inflow > 0 =>
        \A c \in Chans :
            junction[c] = J =>
                \A m \in {transit_acquire(Cur, c, AnotherResource(c)).m,
                          transit_terminate(Cur, c),
                          transit_force(Cur, c),
                          junction_exit(Cur),
                          junction_void(Cur)} :
                    PhaseOwned(m, c) = PhaseOwned(Cur, c)

\* The Port has a descriptor and no latch.
Unlatched(p) == port[p].point # "invalid" /\ port[p].latches = {}

(* C26 as stated: every Port with a descriptor has at least one latched  *)
(* polarity.                                                             *)
C26_DescriptorIsLatched == \A p \in Ports : ~Unlatched(p)

(* C26, amended: a Port comes to have a descriptor and no latch only by  *)
(* leak() or by being constructed as Port(id) with a descriptor; every   *)
(* other operation that clears a Port's last latch (shatter, the commit  *)
(* of a termination, void) leaves the Port without a descriptor, and the *)
(* allocators' Ports start latched.                                      *)
C26_UnlatchedOnlyByLeak ==
    /\ \A p \in {"pr", "pw", "pj"} : ~Unlatched(p)
    /\ [][\A p \in Ports :
             ~Unlatched(p) /\ Unlatched(p)' =>
                \/ port'[p].cause = "leak" /\ port'[p].point = port[p].point
                \/ p = "pn" /\ port'[p] = port_new("open")]_vars

\* The reader's Port was leaked and the reader's termination has been
\* committed since: the descriptor is still there, without a latch.
C26_Witness ==
    /\ Unlatched("pr") /\ Committed("r")
    /\ port["pr"].cause = "leak"

(* C27: end_cycle, for a Channel on the transfer list without a         *)
(* terminate event: the Channel stays on the ring; a resource it holds   *)
(* is released exactly when neither I.transfer nor D.transfer is set,    *)
(* and is kept as it is otherwise (a transfer that only stopped, or an   *)
(* acquire inside the cycle after the exhaust).  The transfer of a later *)
(* cycle runs on the resource the Channel holds then.                    *)
C27_ExhaustReleases ==
    [][\A c \in Chans :
          /\ pc = "open" /\ pc' = "idle" /\ lltransfer[c] # NULL
               /\ "terminate" \notin events[c] =>
                /\ Channel_Attached(Cur, c)'
                /\ Channel_HasResource(Cur, c) =>
                      IF \/ Channel_IQualified(Cur, c, "transfer")
                         \/ Channel_DQualified(Cur, c, "transfer")
                      THEN resource'[c] = resource[c]
                      ELSE ~Channel_HasResource(Cur, c)'
                /\ ~Channel_HasResource(Cur, c) => ~Channel_HasResource(Cur, c)'
          /\ pc = "collect" /\ "transfer" \in events'[c] =>
                /\ resource'[c].id = resource[c].id
                /\ Channel_HasResource(Cur, c)]_vars

\* The writer exhausted its resource in this cycle and the caller has
\* supplied the next one inside the cycle; end_cycle keeps it.
C27_Witness ==
    /\ pc = "open" /\ replaced["w"]
    /\ "transfer" \in events["w"] /\ "terminate" \notin events["w"]
    /\ Channel_DQualified(Cur, "w", "transfer")
    /\ ~Channel_IQualified(Cur, "w", "transfer")
    /\ junction_exit(Cur).resource["w"] = resource["w"]
    /\ Channel_HasResource(Cur, "w")

\* What the run loop of the I/O phase starts from, for one order of the
\* collected events: the state after the collects and their transforms.
BeforeRun(order) ==
    IF pc = "run" THEN Cur ELSE junction_kevent_rounds(Cur, backend, order)

(* C28: in the run-transfers phase, for a Channel on the transfer list   *)
(* with I.terminate or X.terminate set: the terminate event is noted, no *)
(* transfer is run (no transfer event, the window, the resource and the  *)
(* pipe's share of the Channel are as before) even when I.transfer and   *)
(* X.transfer are both set, and its filter is deleted unless requeue is  *)
(* set.                                                                  *)
C28_TerminateDominates ==
    pc \in {"collect", "run"} =>
        \A order \in Orders :
            LET m1 == BeforeRun(order)
                m2 == junction_flow_run(m1)
            IN \A c \in ListFrom(m1, m1.lltransfer[J], Cardinality(Nodes)) :
                  Channel_ShouldTerminate(m1, c) =>
                     /\ "terminate" \in m2.events[c]
                     /\ "transfer" \notin m2.events[c]
                     /\ m2.window[c] = m1.window[c]
                     /\ m2.resource[c] = m1.resource[c]
                     /\ m2.moved[c] = m1.moved[c]
                     /\ m2.state[c] = m1.state[c]
                     /\ ~Channel_GetControl(m1, c, "requeue") => ~m2.filt[c]

\* A cycle noted the writer's termination alone although the writer has a
\* resource and both transfer qualifications.
C28_Witness ==
    /\ pc = "open" /\ events["w"] = {"terminate"}
    /\ Channel_ShouldTransfer(Cur, "w") /\ Channel_HasResource(Cur, "w")
    /\ window["w"][2] < Len(resource["w"].data)
    /\ Len(pipe) < PipeCap /\ PortOpen(Cur, "pr")

(* C29: on both backends, when the peer of an input Channel has closed  *)
(* while bytes were pending in the kernel and the Channel holds a        *)
(* resource with free space, the cycle that notes the Channel's          *)
(* terminate event has delivered the pending bytes by then: none is left *)
(* in the kernel.  (A terminate() of the Channel itself is another case.)*)
C29_PendingInputFirst ==
    (/\ pc = "open" /\ "terminate" \in events["r"]
     /\ ~Channel_IQualified(Cur, "r", "terminate")
     /\ Channel_HasResource(Cur, "r")
     /\ Channel_IQualified(Cur, "r", "transfer")
     /\ window["r"][2] < Len(resource["r"].data)) =>
        pipe = <<>>

(* C30: after Channel.force() on an attached Channel that is not         *)
(* terminating and holds a resource with I.transfer set, the next cycle  *)
(* sets X.transfer without any readiness, lists the Channel and runs its *)
(* transfer, which notes the transfer event whatever it moves (unless    *)
(* the Channel's termination arrives in that cycle and takes its place). *)
(* The force flag is taken off as it is applied: no state carries it on  *)
(* a Channel, and a begin_cycle sets X.transfer only for a published     *)
(* force.                                                                *)
C30_ForceOnce ==
    /\ [](\A c \in Chans : "force" \notin state[c])
    /\ [][\A c \in Chans :
             /\ pc = "idle" /\ pc' = "collect"
                  /\ Channel_Attached(Cur, c) /\ ~Channel_Terminating(Cur, c)
                  /\ Channel_HasResource(Cur, c)
                  /\ Channel_IQualified(Cur, c, "transfer")
                  /\ "force" \in delta[c] =>
                   /\ Channel_XQualified(Cur, c, "transfer")'
                   /\ "force" \notin delta'[c]
                   /\ lltransfer'[c] # NULL
             /\ pc = "collect" /\ pc' = "open"
                  /\ Channel_ShouldTransfer(Cur, c) /\ lltransfer[c] # NULL =>
                   "transfer" \in events'[c] \/ events'[c] = {"terminate"}
             /\ pc = "idle" /\ ~Channel_XQualified(Cur, c, "transfer")
                  /\ Channel_XQualified(Cur, c, "transfer")' =>
                   "force" \in delta[c] /\ "force" \notin delta'[c]]_vars

\* force() was called on the reader after a cycle had connected it; the
\* pipe is empty and nothing is ready: the cycle begun from here gives it
\* a transfer event with no bytes and leaves it stopped again.
C30_Witness ==
    /\ pc = "idle" /\ Channel_Attached(Cur, "r") /\ ~Channel_Terminating(Cur, "r")
    /\ Channel_HasResource(Cur, "r") /\ Channel_IQualified(Cur, "r", "transfer")
    /\ ~Channel_XQualified(Cur, "r", "transfer")
    /\ "force" \in delta["r"] /\ filt["r"] /\ ~kev["r"]
    /\ pipe = <<>> /\ PortOpen(Cur, "pw")
    /\ LET m1 == junction_flow_apply(junction_enter(Cur).m)
           m2 == junction_flow_run(junction_kevent_rounds(m1, backend, <<"r", "w">>))
       IN /\ Channel_XQualified(m1, "r", "transfer")
          /\ m2.events["r"] = {"transfer"} /\ m2.moved["r"] = <<>>
          /\ ~Channel_XQualified(m2, "r", "transfer")

\* c is a member of J's ring.
Member(m, c) == m.junction[c] = J /\ Channel_Attached(m, c)

(* C31: outside the delta flush the members with a non-zero delta form a *)
(* segment directly behind the Junction, and the flush of a begin_cycle  *)
(* leaves every member with delta 0, each delta merged into the state    *)
(* and its Channel on the transfer list.                                 *)
C31_FlushTakesEveryDelta ==
    /\ \A c \in Chans :
          Member(Cur, c) /\ delta[c] # {} =>
              next[c] = J \/ delta[next[c]] # {}
    /\ pc = "idle" /\ junction_enter(Cur).val = "self" =>
          LET m == junction_flow_enter(Cur)
          IN \A c \in Chans :
                Member(m, c) =>
                   /\ m.delta[c] = {}
                   /\ Member(Cur, c) /\ delta[c] # {} =>
                         /\ MergedDelta(delta[c]) \subseteq m.state[c]
                         /\ m.lltransfer[c] # NULL

(* C32: the first collect of a cycle blocks only when will_wait was set  *)
(* to 1 before the exclusive token was given up: whenever the worker is  *)
(* blocked in the collect will_wait is 1, and a delta a caller publishes *)
(* on an attached Channel meanwhile posts the wakeup.                    *)
C32_BlocksOnlyAnnounced ==
    Waiting =>
       /\ will_wait = 1
       /\ \A c \in Chans :
             Member(Cur, c) => transit_terminate(Cur, c).wake

PolledInTurn ==
    /\ \A i \in 1..(Len(polled) - 1) :
          ~(polled[i] = "wfd" /\ polled[i + 1] = "wfd")
    /\ polled # <<>> /\ polled[Len(polled)] = "wfd" => haswrites # 1

(* C34: on the epoll backend haswrites alternates the polled object: no  *)
(* two collects in a row poll the writers' epoll object, and once the    *)
(* readers' epoll object has reported the writers' one as ready          *)
(* (haswrites = 1) a later collect of the same cycle polls the writers,  *)
(* so no cycle ends its collects with haswrites = 1.                     *)
C34_WritersPolledInCycle ==
    backend = "epoll" =>
       /\ PolledInTurn
       /\ pc = "open" => haswrites # 1

\* The ring: the pointers, the back-references and the populations.
Ring(m) == <<m.prev, m.next, m.junction, m.ntransits>>

\* The machine with the ring pointers of every node blanked.
Unringed(m) ==
    [m EXCEPT !.prev = [n \in Nodes |-> NULL],
              !.next = [n \in Nodes |-> NULL]]

\* Running a part of the I/O phase on before leaves the ring as it is and
\* gives, on a machine without ring pointers, the same result but for them.
RingUntouched(before, after, blind) ==
    /\ Ring(after) = Ring(before)
    /\ Unringed(after) = blind

(* C35: the I/O phase of a cycle (apply deltas, collect, transform, run  *)
(* transfers) leaves the ring pointers, the ring membership and the      *)
(* population as they are, and its result does not depend on the ring    *)
(* pointers; no step that enters or leaves the I/O phase changes them.   *)
C35_PhaseLeavesRing ==
    /\ [](/\ pc = "idle" /\ junction_enter(Cur).val = "self" =>
                LET m == junction_flow_enter(Cur)
                IN RingUntouched(m, junction_flow_apply(m),
                                 junction_flow_apply(Unringed(m)))
          /\ pc = "collect" =>
                \A order \in Orders :
                   LET m == junction_kevent_rounds(Cur, backend, order)
                       u == junction_kevent_rounds(Unringed(Cur), backend, order)
                   IN /\ RingUntouched(Cur, m, u)
                      /\ RingUntouched(m, junction_flow_run(m),
                                       junction_flow_run(u))
          /\ pc = "run" =>
                RingUntouched(Cur, junction_flow_run(Cur),
                              junction_flow_run(Unringed(Cur))))
    /\ [][pc' # pc /\ pc' # "idle" =>
             UNCHANGED <<prev, next, junction, ntransits>>]_vars

\* The worker is about to run a transfer and a terminate on a ring of two.
C35_Witness ==
    /\ pc = "collect" /\ ntransits[J] = 2
    /\ \E order \in Orders :
          LET m == junction_flow_run(
                       junction_kevent_rounds(Cur, backend, order))
          IN /\ m.events["r"] = {"terminate"}
             /\ "transfer" \in m.events["w"]
             /\ m.lltransfer # lltransfer

(* C39: a Channel.acquire that fails because the buffer of the object   *)
(* cannot be obtained leaves the Channel as it was: the resource it held *)
(* is still borrowed, and window, state and delta are unchanged.         *)
C39_FailedAcquireKeeps ==
    \A t \in Chans :
        LET r == transit_acquire(Cur, t, Unbuffered)
        IN r.val = "BufferError" => r.m = Cur

\* c was given a resource before Junction.acquire took it: I.transfer
\* was set directly, the delta holds the connect alone and no cycle has
\* begun since.
AcquiredBeforeAttach(c) ==
    /\ Member(Cur, c) /\ Channel_HasResource(Cur, c)
    /\ Channel_IQualified(Cur, c, "transfer")
    /\ delta[c] = {"connect"}

\* The kernel has something for a transfer of c: bytes for the reader,
\* room for the writer.
KTransferReady(c) ==
    IF c = "r" THEN pipe # <<>> ELSE Len(pipe) < PipeCap

(* C36: a Channel that got its resource before Junction.acquire is       *)
(* served without a further call on it: with cycles repeated, once the   *)
(* kernel has bytes or room for it a transfer is run on the resource and *)
(* the transfer event is delivered, unless the Junction is terminated.   *)
C36_EarlyResourceServed ==
    \A c \in Chans :
        (AcquiredBeforeAttach(c) /\ KTransferReady(c))
            ~> ("transfer" \in events[c] \/ Channel_Terminating(Cur, J))

\* The cycle after the attach has delivered the transfer of the early
\* resource.
C36_Witness ==
    /\ pc = "open" /\ "transfer" \in events["r"]
    /\ moved["r"] # <<>> /\ ~replaced["r"]
    /\ ~Channel_DQualified(Cur, "r", "transfer")

\* The Channels with a non-zero events word from t on along the
\* transfer list, in list order.
RECURSIVE Pending(_, _)
Pending(m, t) ==
    IF t = J \/ t = NULL THEN <<>>
    ELSE (IF m.events[t] # {} THEN <<t>> ELSE <<>>)
             \o Pending(m, m.lltransfer[t])

\* What next() yields from iterator i on, call after call, and the result
\* that ends the calls.
RECURSIVE Drain(_, _, _)
Drain(m, i, fuel) ==
    LET r == jxi_next(m, i)
    IN IF r.val \in Chans /\ fuel > 0
       THEN LET d == Drain(m, r.i, fuel - 1)
            IN [seq |-> <<r.val>> \o d.seq, end |-> d.end]
       ELSE [seq |-> <<>>, end |-> r.val]

\* What the iterator in use has left to yield.
Rest == IF jxi.t = NULL THEN <<>> ELSE Pending(Cur, jxi.t)

\* In the cycle begin_cycle has returned from, a new iterator yields the
\* Channels of the transfer list that have events, each once, in list
\* order, and then stops; an iterator in use yields what is left of them,
\* and no call made in between changes what is left.  Outside a cycle
\* Junction.transfer() yields nothing.
IteratesOpenCycle ==
    /\ [](/\ pc = "open" /\ Channel_InCycle(Cur, J) =>
                /\ Drain(Cur, junction_transfer(Cur), Cardinality(Chans))
                      = [seq |-> Pending(Cur, lltransfer[J]),
                         end |-> "StopIteration"]
                /\ jxi.J # NULL /\ ~stale =>
                      Drain(Cur, jxi, Cardinality(Chans))
                         = [seq |-> Rest, end |-> "StopIteration"]
          /\ ~Channel_InCycle(Cur, J) =>
                /\ junction_transfer(Cur) = NoIter
                /\ Drain(Cur, junction_transfer(Cur), Cardinality(Chans)).seq
                      = <<>>)
    /\ [][pc = "open" /\ pc' = "open" /\ jxi' = jxi => Rest' = Rest]_vars

\* The events of the cycle, in list order.
Events == Pending(Cur, lltransfer[J])

(* C37: an iterator that Junction.transfer() hands out during a cycle    *)
(* yields the Channels of the transfer list that have events, each once, *)
(* in list order, and then stops, whatever the callers terminate, force  *)
(* or acquire meanwhile; outside a cycle transfer() yields nothing.  An  *)
(* iterator handed out while the worker is in the I/O phase of the cycle *)
(* has yielded nothing when begin_cycle returns, so all events of the    *)
(* cycle are left for it to yield.                                       *)
C37_YieldsListedEvents ==
    /\ IteratesOpenCycle
    /\ [][pc = "collect" /\ pc' = "open" /\ jxi.J # NULL /\ ~stale =>
             Rest' = Events']_vars

\* The transfer list from t on, as far as fuel goes.
RECURSIVE ListSeq(_, _, _)
ListSeq(m, t, fuel) ==
    IF t = J \/ t = NULL \/ fuel = 0 THEN <<>>
    ELSE <<t>> \o ListSeq(m, m.lltransfer[t], fuel - 1)

\* next_transfer links lead from t to the Junction within fuel steps.
RECURSIVE ReachesJunction(_, _, _)
ReachesJunction(m, t, fuel) ==
    \/ t = J
    \/ t # NULL /\ fuel > 0 /\ ReachesJunction(m, m.lltransfer[t], fuel - 1)

\* The transfer list of m is a closed chain of distinct members of J.
WellFormedList(m) ==
    LET l == ListSeq(m, m.lltransfer[J], Cardinality(Nodes))
    IN /\ ReachesJunction(m, m.lltransfer[J], Cardinality(Chans))
       /\ \A i, j \in 1..Len(l) : l[i] = l[j] => i = j
       /\ \A i \in 1..Len(l) : Member(m, l[i])

\* Sequence s without the elements outside set keep.
RECURSIVE Kept(_, _)
Kept(s, keep) ==
    IF s = <<>> THEN <<>>
    ELSE (IF Head(s) \in keep THEN <<Head(s)>> ELSE <<>>) \o Kept(Tail(s), keep)

(* C38: in a cycle the transfer list is well formed: next_transfer links *)
(* lead from the Junction back to it, no Channel is on the list twice    *)
(* and every Channel on it is a member of the Junction's ring; adding a  *)
(* listed Channel changes nothing, and the apply phase takes out the     *)
(* Channels without event state and keeps the others in their order.     *)
C38_ListWellFormed ==
    /\ Junction_Cycling(Cur) =>
          /\ WellFormedList(Cur)
          /\ \A c \in TransferList : Junction_AddTransfer(Cur, c) = Cur
    /\ pc = "idle" /\ junction_enter(Cur).val = "self" =>
          LET m == junction_flow_enter(Cur)
              a == junction_flow_apply(m)
              l == ListSeq(m, m.lltransfer[J], Cardinality(Nodes))
              keep == {c \in Chans : Channel_EventState(a, c)}
          IN /\ WellFormedList(m) /\ WellFormedList(a)
             /\ ListSeq(a, a.lltransfer[J], Cardinality(Nodes)) = Kept(l, keep)
             /\ \A c \in Chans : a.lltransfer[c] = NULL <=>
                   c \notin {l[i] : i \in 1..Len(l)} \cap keep

\* The flush listed both Channels and the apply phase is about to take one
\* of them out.
C38_Witness ==
    /\ pc = "idle" /\ junction_enter(Cur).val = "self"
    /\ LET m == junction_flow_enter(Cur)
           a == junction_flow_apply(m)
       IN /\ Len(ListSeq(m, m.lltransfer[J], Cardinality(Nodes))) = 2
          /\ Len(ListSeq(a, a.lltransfer[J], Cardinality(Nodes))) = 1

\* The apply phase on m emits a filter install for c: c is on the list
\* with connect set, its Port has no error and is latched, and requeue is
\* not set.
EmitsInstall(m, c) ==
    /\ Channel_InCycle(m, c) /\ Channel_ShouldXConnect(m, c)
    /\ ~Channel_PortError(m, c) /\ Channel_PortLatched(m, c)
    /\ ~Channel_GetControl(m, c, "requeue")

\* The step runs the transfers and emits a filter delete for c: the run
\* loop emits it where it notes the terminate event, unless requeue is set.
EmitsDelete(c) ==
    /\ pc \in {"collect", "run"} /\ pc' = "open"
    /\ "terminate" \in events'[c] /\ "terminate" \notin events[c]
    /\ ~Channel_GetControl(Cur, c, "requeue")

(* C40: filter changes are paired per Channel: a delete is emitted only  *)
(* for a Channel whose filter is installed, and it ends that install, so *)
(* no second delete follows; an install is emitted only for a Channel    *)
(* that has no filter on the present readiness object, and never for a   *)
(* Channel with requeue set or with an errored or unlatched Port.        *)
C40_FilterChangesPaired ==
    /\ [](pc = "idle" /\ junction_enter(Cur).val = "self" =>
             LET m == junction_flow_enter(Cur)
                 a == junction_flow_apply(m)
             IN \A c \in Chans :
                   /\ EmitsInstall(m, c) => ~m.filt[c]
                   /\ a.filt[c] /\ ~m.filt[c] => EmitsInstall(m, c))
    /\ [][\A c \in Chans : EmitsDelete(c) => filt[c] /\ ~filt'[c]]_vars

====
